---- MODULE Spec2Model ----
(***************************************************************************)
(* The task worker of arto_tasks (src/worker.py) with the parts of the     *)
(* identity repository (src/database.py), the session pool                 *)
(* (src/session_manager.py) and the sharded scheduler                      *)
(* (src/task_service.py) that it works with.                               *)
(*                                                                         *)
(* The worker is one asyncio event loop.  A stretch of code without a      *)
(* suspending await is one atomic action.  The redis client is the         *)
(* synchronous one (worker.py:22), asyncio.Lock.acquire does not suspend   *)
(* when the lock is free, and the lock is only ever held over code         *)
(* without awaits, so the buffer lock is never contended.  The main loop   *)
(* is a sequential process (pc); coroutines started with                   *)
(* asyncio.create_task run only while the main loop is suspended.          *)
(*                                                                         *)
(* Time is in seconds.  time.time() is sampled from the finite set         *)
(* Instants.  Redis ("task_queue", "retry_tasks", the shard keys) and the  *)
(* accounts table outlive the worker process.                              *)
(***************************************************************************)
EXTENDS Integers, Sequences, FiniteSets, TLC

(***************************************************************************)
(* Program constants.                                                      *)
(***************************************************************************)
max_retries == 3
BanThreshold == 3
ExpiredAfter == 3600
ReadyMargin == 60
ReorderMargin == 30
NearFuture == 300
RetryJitterMin == 60
BanRetryWindow == 432000
view_shard_interval == 900
subscription_shard_interval == 3600
retry_batch == 20
force_attempts == 10
BanCheckEvery == 3600
SweepLimit == 100

(***************************************************************************)
(* Sizes of the model.  The capacities of the buffer are those of          *)
(* worker.py:44-45,231,298,438,530 scaled down to the handful of tasks     *)
(* the model holds.                                                        *)
(***************************************************************************)
max_buffer_size == 2
min_buffer_size == 2
ReadyDeferLimit == 1
ReorderReserve == 0
NearFutureLimit == 1
batch_size == 2
MaxFail == 4
MaxPerformed == 2
MaxScheduled == 1
MaxFaults == 1

Phones == {"p1", "p2"}

PhoneIdx(p) == IF p = "p1" THEN 1 ELSE 2

ChannelIdx(c) == IF c = "c1" THEN 1 ELSE IF c = "c2" THEN 2 ELSE 3

\* The instants at which the clock is read.
Instants == {0, 950, 1000, 2000, 4601}

\* e.seconds of a FloodWaitError, and the value random.uniform(60, 300) is sampled at.
FloodSeconds == {10}

Jitters == {RetryJitterMin}

(***************************************************************************)
(* A task record as the worker reads it: the keys account_session / phone  *)
(* (one identity), channel (with post_id: the target), task_type,          *)
(* execute_at, retry_count, retry_after (0: key absent) and score (scored: *)
(* the key fill and reconciliation add to a record they load).             *)
(***************************************************************************)
Task(p, c, ty, at) ==
    [phone |-> p, channel |-> c, task_type |-> ty, execute_at |-> at,
     retry_count |-> 0, retry_after |-> 0, scored |-> FALSE]

\* The tasks that may sit in "task_queue" when the worker starts.
QueuedTasks ==
    { Task("p1", "c1", "view", 1000),
      Task("p1", "c2", "subscribe", 1200),
      Task("p2", "c1", "view", 1200) }

\* accounts.fail when the worker starts: one identity is a failure short of the threshold.
InitialFail == [p \in Phones |-> IF p = "p1" THEN BanThreshold - 1 ELSE 0]

\* The identities whose connection may drop.
Unstable == {"p2"}

\* The identity of a task over its lifetime: who does what to which target.
Key(t) == <<t.phone, t.channel>>

Keys == { Key(t) : t \in QueuedTasks }

VARIABLES
    clock,          \* time.time()
    running,        \* a worker process is alive (TaskWorker.running)
    pc,             \* where the main loop stands
    task_queue,     \* redis sorted set "task_queue": set of members, score = execute_at
    task_buffer,    \* TaskWorker.task_buffer (deque)
    retry_tasks,    \* redis list "retry_tasks", head = left end
    ready_tasks,    \* ready_tasks of the running processing cycle not yet batched
    expired_tasks,  \* expired_tasks of the running processing cycle
    inflight,       \* coroutines executing a task: <<[task, stage]>>
    loop_time,      \* current_time captured by the retry / forced loop
    iter,           \* iterations the retry / forced loop has made
    bg_reorder,     \* a created _async_smart_buffer_management task has not run yet
    bg_purge,       \* the phones of the created purge tasks that have not run yet
    bg_scan,        \* the purge tasks that sleep between two pages of zscan, each with
                    \* its phone and the "retry_tasks" there was when it started
    fail,           \* accounts.fail
    status,         \* accounts.status
    last_used,      \* accounts.last_used
    live,           \* phones for which get_client returns a connected client
    shards,         \* the shard sorted sets the scheduler wrote: set of [key, task]
    active_shards,  \* "active_view_shards" / "active_subscription_shards": shard_meta
    performed,      \* per task key: how often its view / join request was accepted
    faults,         \* how often a redis call of the worker has failed
    last_ban_check, \* last_ban_check of _main_loop
    ban_accounts,   \* the accounts of the running sweep not yet done with
    probed,         \* per phone: when it was last probed (observation only)
    last_pull,      \* the tasks the last range pull buffered, and which of them
                    \* were started, in that order (observation only)
    pool,           \* SessionManager: clients (per phone the connection its handle
                    \* holds), failed_sessions, loading_complete, and the
                    \* connections that are open on the network
    crashes,        \* how many cycles of _main_loop in a row have ended in its
                    \* `except Exception` (observation only)
    buffer_updating, \* self.buffer_updating, the guard of reconciliation
    ev              \* the last thing that happened (observation only)

vars == <<clock, running, pc, task_queue, task_buffer, retry_tasks, ready_tasks,
          expired_tasks, inflight, loop_time, iter, bg_reorder, bg_purge, fail,
          status, last_used, live, shards, active_shards, performed, faults,
          last_ban_check, ban_accounts, probed, last_pull, pool, crashes, buffer_updating,
          bg_scan, ev>>

NoEv == [kind |-> "none"]

NoPull == [tasks |-> <<>>, started |-> <<>>]

\* accounts.last_used IS NULL; also: the phone was never probed, has no handle.
Null == -1

\* MAX_SESSIONS_IN_MEMORY, scaled down; SmallSessions is a limit below the number
\* of the accounts.
max_sessions == 2

SmallSessions == 1

\* SessionManager.__init__; no connection has been opened.
NoPool ==
    [clients |-> [p \in Phones |-> Null], failed_sessions |-> {},
     loading_complete |-> FALSE, open |-> {}, opened |-> 0,
     max_sessions |-> max_sessions]

(***************************************************************************)
(* Sequences and the redis sorted set.                                     *)
(***************************************************************************)
Range(s) == { s[i] : i \in DOMAIN s }

Take(s, n) == SubSeq(s, 1, IF n < Len(s) THEN (IF n < 0 THEN 0 ELSE n) ELSE Len(s))

Drop(s, n) == SubSeq(s, (IF n < Len(s) THEN n ELSE Len(s)) + 1, Len(s))

Min(a, b) == IF a < b THEN a ELSE b

\* sorted(..., key=execute_at) and list.sort(key=execute_at): stable.  SortedPlace is
\* the place of s[i] in the result.
SortedPlace(s, i) ==
    1 + Cardinality({ j \in DOMAIN s :
            \/ s[j].execute_at < s[i].execute_at
            \/ s[j].execute_at = s[i].execute_at /\ j < i })

SortByTime(s) == [k \in DOMAIN s |-> s[CHOOSE i \in DOMAIN s : SortedPlace(s, i) = k]]

\* Redis orders a sorted set by score, then by member (the JSON text).
MemberRank(t) ==
    ((((PhoneIdx(t.phone) * 4 + ChannelIdx(t.channel)) * 2
        + (IF t.task_type = "view" THEN 0 ELSE 1)) * 8 + t.retry_count) * 2
        + (IF t.scored THEN 1 ELSE 0))

ZLess(a, b) ==
    \/ a.execute_at < b.execute_at
    \/ /\ a.execute_at = b.execute_at
       /\ MemberRank(a) < MemberRank(b)

ZOrder(S) ==
    [k \in 1..Cardinality(S) |->
        CHOOSE x \in S : Cardinality({ y \in S : ZLess(y, x) }) = k - 1]

\* redis zrangebyscore(key, min, max, start=0, num=num); hi = -1 stands for '+inf'.
ZRangeByScore(zset, lo, hi, num) ==
    Take(ZOrder({ t \in zset : lo <= t.execute_at /\ (hi = -1 \/ t.execute_at <= hi) }), num)

\* task_data['score'] = score on a record loaded from the sorted set.
WithScore(t) == [t EXCEPT !.scored = TRUE]

\* {k: v for k, v in task.items() if k != 'score'}
WithoutScore(t) == [t EXCEPT !.scored = FALSE]

\* global_session_manager.get_client(session_data) returns a client.
get_client(p) == p \in live

(***************************************************************************)
(* The state after construction and start(): an empty buffer, the backend  *)
(* as the previous runs left it.                                           *)
(***************************************************************************)
Init ==
    /\ clock = 0
    /\ running = TRUE
    /\ pc = "idle"
    /\ task_queue = QueuedTasks
    /\ task_buffer = <<>>
    /\ retry_tasks = <<>>
    /\ ready_tasks = <<>>
    /\ expired_tasks = <<>>
    /\ inflight = <<>>
    /\ loop_time = 0
    /\ iter = 0
    /\ bg_reorder = FALSE
    /\ bg_purge = <<>>
    /\ bg_scan = <<>>
    /\ fail = InitialFail
    /\ status = [p \in Phones |-> "active"]
    /\ last_used = [p \in Phones |-> 0]
    /\ live = Phones
    /\ shards = {}
    /\ active_shards = {}
    /\ performed = [k \in Keys |-> 0]
    /\ faults = 0
    /\ last_ban_check = 0
    /\ ban_accounts = <<>>
    /\ probed = [p \in Phones |-> Null]
    /\ last_pull = NoPull
    /\ pool = NoPool
    /\ crashes = 0
    /\ buffer_updating = FALSE
    /\ ev = NoEv

\* Time passes while the main loop awaits or no process runs; a stretch of code without
\* an await reads one and the same time, and a coroutine runs up to its first await
\* (get_client, then the request to the platform) as soon as it is awaited.
Awaiting == {"idle", "gather", "retry_exec", "force_exec", "probe_exec", "probe_sleep"}

TimePasses(instants) ==
    /\ ~running \/ pc \in Awaiting
    /\ \A i \in DOMAIN inflight : inflight[i].stage # "start"
    /\ \E now \in instants :
        /\ now > clock
        /\ clock' = now
    /\ UNCHANGED <<running, pc, task_queue, task_buffer, retry_tasks, ready_tasks,
                   expired_tasks, inflight, loop_time, iter, bg_reorder, bg_purge,
                   fail, status, last_used, live, shards, active_shards, performed, faults,
                   last_ban_check, ban_accounts, probed, last_pull, pool, crashes, buffer_updating,
                   bg_scan>>

Tick ==
    /\ TimePasses(Instants)
    /\ ev' = NoEv

(***************************************************************************)
(* The main loop, one action per call it makes.                            *)
(***************************************************************************)

\* The calls a stretch of code makes on the buffer, on its lock and on redis are kept
\* in their order with the event of the step.
Opt(cond, op) == IF cond THEN <<op>> ELSE <<>>

\* self.task_buffer is changed.
BufferOps == {"extend", "clear", "assign", "popleft", "appendleft"}

\* A round trip to redis.
NetworkOps == {"zrangebyscore", "zadd", "zrem", "zscan", "lrange", "delete", "lpush"}

\* async with self.buffer_lock: the i-th call is made inside the block.
LockHeld(ops, i) ==
    Cardinality({ j \in 1..(i - 1) : ops[j] = "acquire" })
        > Cardinality({ j \in 1..(i - 1) : ops[j] = "release" })

\* The main loop is suspended in an await: created tasks run now.
Suspended == running /\ pc \in Awaiting

\* The event loop runs what became ready first: a created reconciliation task runs at
\* the first await of the main loop, before the coroutines gathered after it start and
\* before the main loop resumes.
Resumable == ~bg_reorder

\* _process_worker_commands with no command queued (or one that leaves the buffer
\* alone): the cycle goes on.
NoCommand ==
    /\ running /\ pc = "idle" /\ Resumable
    /\ pc' = "spawn"
    /\ ev' = NoEv
    /\ UNCHANGED <<clock, running, task_queue, task_buffer, retry_tasks, ready_tasks,
                   expired_tasks, inflight, loop_time, iter, bg_reorder, bg_purge,
                   fail, status, last_used, live, shards, active_shards, performed, faults,
                   last_ban_check, ban_accounts, probed, last_pull, pool, crashes, buffer_updating,
                   bg_scan>>

\* _process_worker_commands pops 'force_process_buffer': _force_process_buffer starts.
ForceStart ==
    /\ running /\ pc = "idle" /\ Resumable
    /\ loop_time' = clock
    /\ iter' = 0
    /\ pc' = IF task_buffer = <<>> THEN "spawn" ELSE "force"
    /\ ev' = NoEv
    /\ UNCHANGED <<clock, running, task_queue, task_buffer, retry_tasks, ready_tasks,
                   expired_tasks, inflight, bg_reorder, bg_purge,
                   fail, status, last_used, live, shards, active_shards, performed, faults,
                   last_ban_check, ban_accounts, probed, last_pull, pool, crashes, buffer_updating,
                   bg_scan>>

ForceTooEarlyStale(t, now) == t.execute_at > now + ExpiredAfter

\* The forced loop's test of one popped task: too far in the future.
ForceTooEarly(t, now) == t.execute_at > now + ReadyMargin

\* Lines 1074 and 1090: the task is popped, and put back when it is too early.
ForceOps(t, now) == <<"popleft">> \o Opt(ForceTooEarly(t, now), "appendleft")

\* One iteration of the loop of _force_process_buffer.
ForceStep ==
    /\ running /\ pc = "force"
    /\ IF iter >= force_attempts \/ task_buffer = <<>>
       THEN /\ pc' = "spawn"
            /\ UNCHANGED <<task_buffer, inflight, iter>>
       ELSE LET task == Head(task_buffer) IN
            IF ForceTooEarly(task, loop_time)
            THEN /\ pc' = "spawn"
                 /\ UNCHANGED <<task_buffer, inflight, iter>>
            ELSE IF ~get_client(task.phone)
            THEN /\ task_buffer' = Tail(task_buffer)
                 /\ iter' = iter + 1
                 /\ UNCHANGED <<pc, inflight>>
            ELSE /\ task_buffer' = Tail(task_buffer)
                 /\ inflight' = <<[task |-> task, stage |-> "start"]>>
                 /\ pc' = "force_exec"
                 /\ UNCHANGED iter
    /\ ev' = IF iter >= force_attempts \/ task_buffer = <<>>
             THEN NoEv
             ELSE [kind |-> "force", ops |-> ForceOps(Head(task_buffer), loop_time)]
    /\ UNCHANGED <<clock, running, task_queue, retry_tasks, ready_tasks,
                   expired_tasks, loop_time, bg_reorder, bg_purge,
                   fail, status, last_used, live, shards, active_shards, performed, faults,
                   last_ban_check, ban_accounts, probed, last_pull, pool, crashes, buffer_updating,
                   bg_scan>>

\* The forced loop's awaited _execute_task has returned; asyncio.sleep(1); next attempt.
ForceResume ==
    /\ running /\ pc = "force_exec" /\ inflight = <<>> /\ Resumable
    /\ pc' = "force"
    /\ iter' = iter + 1
    /\ ev' = NoEv
    /\ UNCHANGED <<clock, running, task_queue, task_buffer, retry_tasks, ready_tasks,
                   expired_tasks, inflight, loop_time, bg_reorder, bg_purge,
                   fail, status, last_used, live, shards, active_shards, performed, faults,
                   last_ban_check, ban_accounts, probed, last_pull, pool, crashes, buffer_updating,
                   bg_scan>>

\* _main_loop, lines 168-173: every 30th cycle a reconciliation task is created.
\* The cycle counter is not kept: any cycle may be the 30th.
SpawnReorder ==
    /\ running /\ pc = "spawn"
    /\ \E due \in BOOLEAN : bg_reorder' = (bg_reorder \/ (due /\ ~buffer_updating))
    /\ pc' = "fill"
    /\ ev' = NoEv
    /\ UNCHANGED <<clock, running, task_queue, task_buffer, retry_tasks, ready_tasks,
                   expired_tasks, inflight, loop_time, iter, bg_purge,
                   fail, status, last_used, live, shards, active_shards, performed, faults,
                   last_ban_check, ban_accounts, probed, last_pull, pool, crashes, buffer_updating,
                   bg_scan>>

FillPullAhead(now) ==
    ZRangeByScore(task_queue, now, now + NearFuture,
                  Min(max_buffer_size - Len(task_buffer), NearFutureLimit))

\* The range pulls of _fill_task_buffer: due tasks first, else the nearest future ones.
FillPull(now) ==
    LET needed == max_buffer_size - Len(task_buffer)
        due == ZRangeByScore(task_queue, 0, now + ReadyMargin, needed)
    IN  IF due # <<>> THEN due
        ELSE ZRangeByScore(task_queue, now, now + NearFuture, Min(needed, NearFutureLimit))

AdmitAny(t) == TRUE

\* A pulled task is buffered only with a live session.
Admit(t) == get_client(t.phone)

RECURSIVE Admitted(_)
Admitted(s) ==
    IF s = <<>> THEN <<>>
    ELSE IF Admit(Head(s)) THEN <<WithScore(Head(s))>> \o Admitted(Tail(s))
         ELSE Admitted(Tail(s))

\* Lines 421-478: the range query, the second one when the first returns nothing, a
\* zrem for every task pulled, and the tasks with a session appended under the lock.
FillOps(now) ==
    LET due == ZRangeByScore(task_queue, 0, now + ReadyMargin,
                             max_buffer_size - Len(task_buffer))
    IN  <<"zrangebyscore">> \o Opt(due = <<>>, "zrangebyscore")
            \o Opt(FillPull(now) # <<>>, "zrem")
            \o (IF Admitted(FillPull(now)) # <<>>
                THEN <<"acquire", "extend", "release">> ELSE <<>>)

\* _fill_task_buffer
Fill ==
    /\ running /\ pc = "fill"
    /\ IF Len(task_buffer) >= min_buffer_size
       THEN /\ UNCHANGED <<task_queue, task_buffer, last_pull, pool, crashes>>
            /\ ev' = NoEv
       ELSE LET pulled == FillPull(clock) IN
            /\ task_queue' = task_queue \ Range(pulled)
            /\ task_buffer' = task_buffer \o Admitted(pulled)
            /\ last_pull' = [tasks |-> Admitted(pulled), started |-> <<>>]
            /\ ev' = [kind |-> "fill", pulled |-> Range(pulled), ops |-> FillOps(clock)]
    /\ pc' = "process"
    /\ UNCHANGED <<clock, running, retry_tasks, ready_tasks,
                   expired_tasks, inflight, loop_time, iter, bg_reorder, bg_purge,
                   fail, status, last_used, live, shards, active_shards, performed, faults,
                   last_ban_check, ban_accounts, probed, pool, crashes, buffer_updating, bg_scan>>

\* The split of _process_buffer_tasks_with_session_check, lines 505-516.
IsExpired(t, now) == t.execute_at < now - ExpiredAfter

IsReady(t, now) == ~IsExpired(t, now) /\ t.execute_at <= now + ReadyMargin

RECURSIVE Filter(_, _, _)
Filter(s, Test(_, _), now) ==
    IF s = <<>> THEN <<>>
    ELSE IF Test(Head(s), now) THEN <<Head(s)>> \o Filter(Tail(s), Test, now)
         ELSE Filter(Tail(s), Test, now)

IsFutureTask(t, now) == ~IsExpired(t, now) /\ ~IsReady(t, now)

RECURSIVE WithClient(_)
WithClient(s) ==
    IF s = <<>> THEN <<>>
    ELSE IF get_client(Head(s).phone)
         THEN <<[task |-> Head(s), stage |-> "start"]>> \o WithClient(Tail(s))
         ELSE WithClient(Tail(s))

\* Lines 502-520: the buffer is cleared and the future tasks are put back.
SplitOps == <<"clear", "extend">>

\* _process_buffer_tasks_with_session_check up to the first batch: the buffer is
\* split into expired, ready and future tasks; the future ones go back, sorted.
ProcessSplit ==
    /\ running /\ pc = "process"
    /\ IF task_buffer = <<>>
       THEN /\ pc' = "retry"
            /\ UNCHANGED <<task_buffer, ready_tasks, expired_tasks>>
            /\ ev' = NoEv
       ELSE /\ expired_tasks' = Filter(task_buffer, IsExpired, clock)
            /\ ready_tasks' = Filter(task_buffer, IsReady, clock)
            /\ task_buffer' = SortByTime(Filter(task_buffer, IsFutureTask, clock))
            /\ pc' = "batch"
            /\ ev' = [kind |-> "split", ops |-> SplitOps]
    /\ UNCHANGED <<clock, running, task_queue, retry_tasks,
                   inflight, loop_time, iter, bg_reorder, bg_purge,
                   fail, status, last_used, live, shards, active_shards, performed, faults,
                   last_ban_check, ban_accounts, probed, last_pull, pool, crashes, buffer_updating,
                   bg_scan>>

\* Lines 604-624: the expired tasks are removed from "task_queue" by their JSON text.
RemoveExpired(zset, expired) == zset \ Range(expired)

\* One batch of the processing cycle, lines 533-558: a coroutine is created for every
\* task of the batch whose session is live, the others are skipped.  Without anything
\* to await and without a further batch the cycle ends here.
StartBatch ==
    /\ running /\ pc = "batch"
    /\ LET batch == Take(ready_tasks, batch_size)
           rest == Drop(ready_tasks, batch_size)
           parallel_tasks == WithClient(batch)
       IN  /\ ready_tasks' = rest
           /\ inflight' = parallel_tasks
           /\ IF parallel_tasks = <<>> /\ rest = <<>>
              THEN /\ task_queue' = RemoveExpired(task_queue, expired_tasks)
                   /\ expired_tasks' = <<>>
                   /\ pc' = "retry"
              ELSE /\ pc' = "gather"
                   /\ UNCHANGED <<task_queue, expired_tasks>>
    /\ ev' = NoEv
    /\ UNCHANGED <<clock, running, task_buffer, retry_tasks,
                   loop_time, iter, bg_reorder, bg_purge,
                   fail, status, last_used, live, shards, active_shards, performed, faults,
                   last_ban_check, ban_accounts, probed, last_pull, pool, crashes, buffer_updating,
                   bg_scan>>

\* asyncio.gather has returned: after the pause between batches the next batch, after
\* the last batch lines 590-626.
BatchDone ==
    /\ running /\ pc = "gather" /\ inflight = <<>> /\ Resumable
    /\ IF ready_tasks # <<>>
       THEN /\ pc' = "batch"
            /\ UNCHANGED <<task_queue, expired_tasks>>
       ELSE /\ task_queue' = RemoveExpired(task_queue, expired_tasks)
            /\ expired_tasks' = <<>>
            /\ pc' = "retry"
    /\ ev' = NoEv
    /\ UNCHANGED <<clock, running, task_buffer, retry_tasks, ready_tasks,
                   inflight, loop_time, iter, bg_reorder, bg_purge,
                   fail, status, last_used, live, shards, active_shards, performed, faults,
                   last_ban_check, ban_accounts, probed, last_pull, pool, crashes, buffer_updating,
                   bg_scan>>

(***************************************************************************)
(* The execution of one task: _execute_task and what it calls.             *)
(***************************************************************************)
RemoveAt(s, i) == SubSeq(s, 1, i - 1) \o SubSeq(s, i + 1, Len(s))

\* The main loop awaits coroutines that execute tasks.
Executing == running /\ pc \in {"gather", "retry_exec", "force_exec"} /\ Resumable

\* _execute_task: the task types its switch handles.
KnownType(ty) == ty \in {"view", "subscribe"}

\* _handle_task_failure, line 802: the test on the count increment_account_fails returned.
BanFires(fail_count) == fail_count >= BanThreshold

\* _handle_task_failure(phone): increment_account_fails, and at the threshold
\* update_account_status(phone, 'ban'), remove_session_by_phone and the creation of
\* the purge task.
HandleFailure(p) ==
    LET fail_count == fail[p] + 1 IN
    /\ fail' = [fail EXCEPT ![p] = fail_count]
    /\ last_used' = [last_used EXCEPT ![p] = clock]
    /\ IF BanFires(fail_count)
       THEN /\ status' = [status EXCEPT ![p] = "ban"]
            /\ live' = live \ {p}
            /\ bg_purge' = Append(bg_purge, p)
       ELSE UNCHANGED <<status, live, bg_purge>>

\* The name _execute_view_task / _execute_subscription_task gives the task's type
\* when it re-queues it.
RetryType(ty) == IF ty = "view" THEN "view" ELSE "subscription"

\* _add_to_retry_queue(task, task_type, delay) with random.uniform(60, 300) = jitter:
\* the record it pushes, and whether it pushes it.
RetryRecord(t, delay, jitter, now) ==
    [t EXCEPT !.retry_count = t.retry_count + 1,
              !.task_type = RetryType(t.task_type),
              !.retry_after = now + delay + jitter]

RetryAllowedAlways(t) == TRUE

\* Line 899
RetryAllowed(t) == t.retry_count <= max_retries

AddToRetry(t, delay, jitter) ==
    LET r == RetryRecord(t, delay, jitter, clock) IN
    retry_tasks' = IF RetryAllowed(r) THEN <<r>> \o retry_tasks ELSE retry_tasks

Performed(t) ==
    IF Key(t) \in DOMAIN performed
    THEN [performed EXCEPT ![Key(t)] = Min(performed[Key(t)] + 1, MaxPerformed)]
    ELSE performed

ExecEv(t, outcome) ==
    [kind |-> "exec", task |-> t, at |-> clock, outcome |-> outcome, path |-> pc,
     fail_before |-> fail[t.phone], fail_after |-> fail'[t.phone],
     status_before |-> status[t.phone],
     quarantine |-> Len(bg_purge') > Len(bg_purge)]

\* _execute_task on a task of a type the switch does not handle: nothing is done.
ExecUnknown(i) ==
    /\ Executing
    /\ inflight[i].stage = "start"
    /\ ~KnownType(inflight[i].task.task_type)
    /\ inflight' = RemoveAt(inflight, i)
    /\ UNCHANGED <<clock, running, pc, task_queue, task_buffer, retry_tasks, ready_tasks,
                   expired_tasks, loop_time, iter, bg_reorder, bg_purge,
                   fail, status, last_used, live, shards, active_shards, performed, faults,
                   last_ban_check, ban_accounts, probed, last_pull, pool, crashes, buffer_updating,
                   bg_scan>>
    /\ ev' = ExecEv(inflight[i].task, "unknown_type")

\* _execute_view_task / _execute_subscription_task: get_client returns None.
ExecNoClient(i) ==
    LET t == inflight[i].task IN
    /\ Executing
    /\ inflight[i].stage = "start"
    /\ KnownType(t.task_type)
    /\ ~get_client(t.phone)
    /\ fail[t.phone] < MaxFail
    /\ HandleFailure(t.phone)
    /\ inflight' = RemoveAt(inflight, i)
    /\ UNCHANGED <<clock, running, pc, task_queue, task_buffer, retry_tasks, ready_tasks,
                   expired_tasks, loop_time, iter, bg_reorder, shards, active_shards, performed, faults,
                   last_ban_check, ban_accounts, probed, last_pull, pool, crashes, buffer_updating,
                   bg_scan>>
    /\ ev' = ExecEv(t, "no_client")

\* The task is noted as started if the last range pull buffered it.
Started(t) ==
    IF \E i \in DOMAIN last_pull.tasks : last_pull.tasks[i] = t
    THEN [last_pull EXCEPT !.started = Append(@, t)]
    ELSE last_pull

\* get_client returned a client: get_entity and the view / join request are awaited.
ExecRequest(i) ==
    LET t == inflight[i].task IN
    /\ Executing
    /\ inflight[i].stage = "start"
    /\ KnownType(t.task_type)
    /\ get_client(t.phone)
    /\ inflight' = [inflight EXCEPT ![i].stage = "sent"]
    /\ last_pull' = Started(t)
    /\ ev' = [kind |-> "request", task |-> t, at |-> clock, path |-> pc]
    /\ UNCHANGED <<clock, running, pc, task_queue, task_buffer, retry_tasks, ready_tasks,
                   expired_tasks, loop_time, iter, bg_reorder, bg_purge,
                   fail, status, last_used, live, shards, active_shards, performed, faults,
                   last_ban_check, ban_accounts, probed, pool, crashes, buffer_updating, bg_scan>>

\* The platform accepts the view / join request; the coroutine then sleeps (view) and
\* awaits the repository.
ExecAccepted(i) ==
    LET t == inflight[i].task IN
    /\ Executing
    /\ inflight[i].stage = "sent"
    /\ performed' = Performed(t)
    /\ inflight' = [inflight EXCEPT ![i].stage = "acted"]
    /\ UNCHANGED <<clock, running, pc, task_queue, task_buffer, retry_tasks, ready_tasks,
                   expired_tasks, loop_time, iter, bg_reorder, bg_purge,
                   fail, status, last_used, live, shards, active_shards, faults,
                   last_ban_check, ban_accounts, probed, last_pull, pool, crashes, buffer_updating,
                   bg_scan>>
    /\ ev' = ExecEv(t, "accepted")

\* The request raises FloodWaitError: the task is re-queued, the counter is left alone.
ExecFlood(i) ==
    LET t == inflight[i].task IN
    /\ Executing
    /\ inflight[i].stage = "sent"
    /\ \E delay \in FloodSeconds, jitter \in Jitters : AddToRetry(t, delay, jitter)
    /\ inflight' = RemoveAt(inflight, i)
    /\ UNCHANGED <<clock, running, pc, task_queue, task_buffer, ready_tasks,
                   expired_tasks, loop_time, iter, bg_reorder, bg_purge,
                   fail, status, last_used, live, shards, active_shards, performed, faults,
                   last_ban_check, ban_accounts, probed, last_pull, pool, crashes, buffer_updating,
                   bg_scan>>
    /\ ev' = ExecEv(t, "flood")

\* What the request may raise besides FloodWaitError: an RPCError, AuthKeyInvalidError
\* (the credential is rejected), or a timeout / connection error (except Exception).
ErrorCauses == {"rpc", "auth", "network"}

\* get_entity fails, or the request raises RPCError / AuthKeyInvalidError / anything else.
ExecError(i) ==
    LET t == inflight[i].task IN
    /\ Executing
    /\ inflight[i].stage = "sent"
    /\ fail[t.phone] < MaxFail
    /\ HandleFailure(t.phone)
    /\ inflight' = RemoveAt(inflight, i)
    /\ UNCHANGED <<clock, running, pc, task_queue, task_buffer, retry_tasks, ready_tasks,
                   expired_tasks, loop_time, iter, bg_reorder, shards, active_shards, performed, faults,
                   last_ban_check, ban_accounts, probed, last_pull, pool, crashes, buffer_updating,
                   bg_scan>>
    /\ \E cause \in ErrorCauses : ev' = ExecEv(t, "error") @@ [cause |-> cause]

ResetFailsByOne(p) ==
    /\ fail' = [fail EXCEPT ![p] = IF fail[p] > 0 THEN fail[p] - 1 ELSE 0]
    /\ status' = [status EXCEPT ![p] = "active"]
    /\ last_used' = [last_used EXCEPT ![p] = clock]

\* reset_account_fails(phone)
ResetFails(p) ==
    /\ fail' = [fail EXCEPT ![p] = 0]
    /\ status' = [status EXCEPT ![p] = "active"]
    /\ last_used' = [last_used EXCEPT ![p] = clock]

\* _handle_task_success after an accepted request.
ExecSuccess(i) ==
    LET t == inflight[i].task IN
    /\ Executing
    /\ inflight[i].stage = "acted"
    /\ ResetFails(t.phone)
    /\ inflight' = RemoveAt(inflight, i)
    /\ ev' = [kind |-> "success", task |-> t, at |-> clock, path |-> pc,
              fail_before |-> fail[t.phone], fail_after |-> fail'[t.phone],
              status_before |-> status[t.phone]]
    /\ UNCHANGED <<clock, running, pc, task_queue, task_buffer, retry_tasks, ready_tasks,
                   expired_tasks, loop_time, iter, bg_reorder, bg_purge,
                   live, shards, active_shards, performed, faults,
                   last_ban_check, ban_accounts, probed, last_pull, pool, crashes, buffer_updating,
                   bg_scan>>

Exec ==
    \E i \in DOMAIN inflight :
        \/ ExecUnknown(i)
        \/ ExecNoClient(i)
        \/ ExecRequest(i)
        \/ ExecAccepted(i)
        \/ ExecFlood(i)
        \/ ExecError(i)
        \/ ExecSuccess(i)

(***************************************************************************)
(* _process_retry_tasks                                                    *)
(***************************************************************************)
RetryStart ==
    /\ running /\ pc = "retry"
    /\ loop_time' = clock
    /\ iter' = 0
    /\ pc' = "retry_loop"
    /\ ev' = NoEv
    /\ UNCHANGED <<clock, running, task_queue, task_buffer, retry_tasks, ready_tasks,
                   expired_tasks, inflight, bg_reorder, bg_purge,
                   fail, status, last_used, live, shards, active_shards, performed, faults,
                   last_ban_check, ban_accounts, probed, last_pull, pool, crashes, buffer_updating,
                   bg_scan>>

RetryDueAlways(t, now) == TRUE

\* Line 923: the popped task is due for its re-attempt.
RetryDue(t, now) == t.retry_after <= now

\* One iteration: rpop, then execute, drop (no session) or push back and stop.
RetryStep ==
    /\ running /\ pc = "retry_loop"
    /\ IF iter >= retry_batch \/ retry_tasks = <<>>
       THEN /\ pc' = "idle"
            /\ UNCHANGED <<retry_tasks, inflight, iter>>
       ELSE LET task == retry_tasks[Len(retry_tasks)]
                popped == SubSeq(retry_tasks, 1, Len(retry_tasks) - 1)
            IN  IF ~RetryDue(task, loop_time)
                THEN /\ retry_tasks' = <<task>> \o popped
                     /\ pc' = "idle"
                     /\ UNCHANGED <<inflight, iter>>
                ELSE IF get_client(task.phone)
                THEN /\ retry_tasks' = popped
                     /\ inflight' = <<[task |-> task, stage |-> "start"]>>
                     /\ pc' = "retry_exec"
                     /\ UNCHANGED iter
                ELSE /\ retry_tasks' = popped
                     /\ iter' = iter + 1
                     /\ UNCHANGED <<pc, inflight>>
    /\ ev' = NoEv
    /\ UNCHANGED <<clock, running, task_queue, task_buffer, ready_tasks,
                   expired_tasks, loop_time, bg_reorder, bg_purge,
                   fail, status, last_used, live, shards, active_shards, performed, faults,
                   last_ban_check, ban_accounts, probed, last_pull, pool, buffer_updating, bg_scan>>
    /\ crashes' = IF pc' = "idle" THEN 0 ELSE crashes

\* The awaited _execute_task of the retry loop has returned: next iteration.
RetryResume ==
    /\ running /\ pc = "retry_exec" /\ inflight = <<>> /\ Resumable
    /\ pc' = "retry_loop"
    /\ iter' = iter + 1
    /\ ev' = NoEv
    /\ UNCHANGED <<clock, running, task_queue, task_buffer, retry_tasks, ready_tasks,
                   expired_tasks, inflight, loop_time, bg_reorder, bg_purge,
                   fail, status, last_used, live, shards, active_shards, performed, faults,
                   last_ban_check, ban_accounts, probed, last_pull, pool, crashes, buffer_updating,
                   bg_scan>>

(***************************************************************************)
(* Reconciliation: _async_smart_buffer_management and                      *)
(* _reorder_buffer_tasks_safe, run as a created task.                      *)
(***************************************************************************)
\* _analyze_buffer_tasks()['ready_now']
ReadyNow(now) == Cardinality({ i \in DOMAIN task_buffer : task_buffer[i].execute_at <= now })

ReorderKeepsPast(t, now) == t.execute_at <= now - ReorderMargin

\* Line 277: the tasks reconciliation keeps in the buffer.
ReorderKeeps(t, now) == t.execute_at <= now + ReorderMargin

ReorderReturns(t, now) == ~ReorderKeeps(t, now)

\* Lines 231 and 245: the pass is put off.
ReorderDeferred == ReadyNow(clock) > ReadyDeferLimit \/ task_queue = {}

ReorderReady == Filter(task_buffer, ReorderKeeps, clock)

\* Lines 284-293: "task_queue" after the future tasks were written back.
ReorderReturned == task_queue \cup Range(Filter(task_buffer, ReorderReturns, clock))

SpotsAvailableWhole == max_buffer_size

\* Line 296
SpotsAvailable == max_buffer_size - Len(ReorderReady)

\* Lines 304-309: the earliest members of "task_queue", as many as there are spots.
ReorderFresh == ZRangeByScore(ReorderReturned, 0, -1, SpotsAvailable)

\* The calls of a pass inside async with self.buffer_lock (lines 224-258): the range
\* query of line 236, the zadd of line 292 when there are future tasks, and by the
\* outcome the second range query, the zrem of the tasks it returned and the
\* assignment of the buffer.
ReorderOps(outcome) ==
    LET zadd == Opt(Filter(task_buffer, ReorderReturns, clock) # <<>>, "zadd") IN
    <<"acquire">>
        \o (CASE outcome = "many_ready" -> <<>>
              [] outcome = "empty" -> <<"zrangebyscore">>
              [] outcome = "short" -> <<"zrangebyscore">> \o zadd \o <<"assign">>
              [] outcome = "full" ->
                    <<"zrangebyscore">> \o zadd \o <<"zrangebyscore">>
                        \o Opt(ReorderFresh # <<>>, "zrem") \o <<"assign">>
              [] outcome = "failed" -> <<"zrangebyscore">> \o zadd \o <<"zrangebyscore">>)
        \o <<"release">>

ReorderEv(kind, outcome) ==
    [kind |-> kind, at |-> clock, kept |-> Range(ReorderReady),
     returned |-> Range(Filter(task_buffer, ReorderReturns, clock)),
     ops |-> ReorderOps(outcome)]

GuardAfterNoFinally(outcome) == outcome = "failed"

\* Lines 262-263: however the pass ends, its finally clause clears the guard.
GuardAfter(outcome) == FALSE

\* A pass that finds the guard set (line 219), that is put off, or that only writes
\* the future tasks back (line 298).
ReorderShort ==
    /\ Suspended /\ bg_reorder
    /\ bg_reorder' = FALSE
    /\ IF buffer_updating
       THEN /\ UNCHANGED <<task_queue, task_buffer, buffer_updating>>
            /\ ev' = [kind |-> "reorder_skipped"]
       ELSE IF ReorderDeferred
       THEN /\ UNCHANGED <<task_queue, task_buffer>>
            /\ buffer_updating' = GuardAfter("deferred")
            /\ ev' = [kind |-> "reorder_deferred",
                      ops |-> ReorderOps(IF ReadyNow(clock) > ReadyDeferLimit
                                         THEN "many_ready" ELSE "empty")]
       ELSE /\ SpotsAvailable <= ReorderReserve
            /\ task_queue' = ReorderReturned
            /\ task_buffer' = ReorderReady
            /\ buffer_updating' = GuardAfter("short")
            /\ ev' = ReorderEv("reorder", "short")
    /\ UNCHANGED <<clock, running, pc, retry_tasks, ready_tasks,
                   expired_tasks, inflight, loop_time, iter, bg_purge,
                   fail, status, last_used, live, shards, active_shards, performed, faults,
                   last_ban_check, ban_accounts, probed, last_pull, pool, crashes, bg_scan>>

\* A full pass: the future tasks go back, the earliest tasks of "task_queue" come in.
ReorderFull ==
    /\ Suspended /\ bg_reorder
    /\ ~buffer_updating
    /\ ~ReorderDeferred
    /\ SpotsAvailable > ReorderReserve
    /\ bg_reorder' = FALSE
    /\ task_queue' = ReorderReturned \ Range(ReorderFresh)
    /\ task_buffer' = SortByTime(ReorderReady \o Admitted(ReorderFresh))
    /\ buffer_updating' = GuardAfter("full")
    /\ ev' = ReorderEv("reorder", "full")
    /\ UNCHANGED <<clock, running, pc, retry_tasks, ready_tasks,
                   expired_tasks, inflight, loop_time, iter, bg_purge,
                   fail, status, last_used, live, shards, active_shards, performed, faults,
                   last_ban_check, ban_accounts, probed, last_pull, pool, crashes, bg_scan>>

\* A full pass in which redis fails at the range query of line 304, after the zadd of
\* line 292: the exception is logged (line 362) and the buffer is left as it was.
ReorderFails ==
    /\ Suspended /\ bg_reorder
    /\ ~buffer_updating
    /\ faults < MaxFaults
    /\ faults' = faults + 1
    /\ ~ReorderDeferred
    /\ SpotsAvailable > ReorderReserve
    /\ bg_reorder' = FALSE
    /\ task_queue' = ReorderReturned
    /\ buffer_updating' = GuardAfter("failed")
    /\ ev' = ReorderEv("reorder_failed", "failed")
    /\ UNCHANGED <<clock, running, pc, task_buffer, retry_tasks, ready_tasks,
                   expired_tasks, inflight, loop_time, iter, bg_purge,
                   fail, status, last_used, live, shards, active_shards, performed,
                   last_ban_check, ban_accounts, probed, last_pull, pool, crashes, bg_scan>>

(***************************************************************************)
(* The cleanups of the buffer.                                             *)
(***************************************************************************)
\* Line 372: the task's session is live.
HasClient(t, now) == get_client(t.phone)

\* _cleanup_buffer_dead_sessions, run as a created task: the tasks without a live
\* session leave the buffer.
CleanupDeadSessions ==
    /\ Suspended
    /\ task_buffer' = Filter(task_buffer, HasClient, clock)
    /\ ev' = [kind |-> "cleanup", removed |-> Len(task_buffer) - Len(task_buffer'),
              ops |-> <<"acquire">> \o Opt(task_buffer' # task_buffer, "assign")
                          \o <<"release">>]
    /\ UNCHANGED <<clock, running, pc, task_queue, retry_tasks, ready_tasks,
                   expired_tasks, inflight, loop_time, iter, bg_reorder, bg_purge,
                   fail, status, last_used, live, shards, active_shards, performed, faults,
                   last_ban_check, ban_accounts, probed, last_pull, pool, crashes, buffer_updating,
                   bg_scan>>

\* Line 1154, with the default max_delay_hours of 1.0: the task stays in the buffer.
NotExpired(t, now) == ~(t.execute_at < now - ExpiredAfter)

\* _process_worker_commands pops 'cleanup_expired_buffer': _cleanup_expired_buffer_tasks
\* drops the expired tasks from the buffer, and the cycle goes on.
CleanupExpired ==
    /\ running /\ pc = "idle" /\ Resumable
    /\ task_buffer' = Filter(task_buffer, NotExpired, clock)
    /\ pc' = "spawn"
    /\ ev' = [kind |-> "cleanup", removed |-> Len(task_buffer) - Len(task_buffer'),
              ops |-> IF task_buffer = <<>> THEN <<>> ELSE <<"popleft", "assign">>]
    /\ UNCHANGED <<clock, running,  task_queue, retry_tasks, ready_tasks,
                   expired_tasks, inflight, loop_time, iter, bg_reorder, bg_purge,
                   fail, status, last_used, live, shards, active_shards, performed, faults,
                   last_ban_check, ban_accounts, probed, last_pull, pool, crashes, buffer_updating,
                   bg_scan>>

(***************************************************************************)
(* _remove_tasks_for_banned_account_async(phone), run as a created task.   *)
(* With the few members the model holds, zscan returns them in one page.   *)
(***************************************************************************)
\* task.get('phone') != phone
NotOf(t, p) == t.phone # p

Reverse(s) == [i \in 1..Len(s) |-> s[Len(s) + 1 - i]]

\* Lines 856-876: the list is read, deleted and pushed again with one lpush.
PurgedRetry(p) == Reverse(Filter(retry_tasks, NotOf, p))

\* Lines 824-876: the buffer is replaced under the lock; then the scan of "task_queue"
\* with a zrem for every task of the identity, and the list read and written again.
PurgeOps(p) ==
    <<"acquire", "assign", "release", "zscan">>
        \o Opt(\E t \in task_queue : ~NotOf(t, p), "zrem")
        \o <<"lrange">>
        \o Opt(retry_tasks # <<>>, "delete")
        \o Opt(PurgedRetry(p) # <<>>, "lpush")

Purge ==
    /\ Suspended /\ bg_purge # <<>> /\ Resumable
    /\ bg_purge' = Tail(bg_purge)
    /\ LET p == Head(bg_purge) IN
       /\ task_buffer' = Filter(task_buffer, NotOf, p)
       /\ task_queue' = { t \in task_queue : NotOf(t, p) }
       /\ retry_tasks' = PurgedRetry(p)
       /\ ev' = [kind |-> "purge", phone |-> p, ops |-> PurgeOps(p)]
    /\ UNCHANGED <<clock, running, pc, ready_tasks,
                   expired_tasks, inflight, loop_time, iter, bg_reorder,
                   fail, status, last_used, live, shards, active_shards, performed, faults,
                   last_ban_check, ban_accounts, probed, last_pull, pool, crashes, buffer_updating,
                   bg_scan>>

(***************************************************************************)
(* The same purge with a "task_queue" that zscan returns in two pages: the *)
(* task sleeps between the pages (line 852) and the other coroutines run.  *)
(***************************************************************************)
RetryRebuiltStale(p) == Reverse(Filter(Head(bg_scan).seen, NotOf, p))

\* Lines 856-876 at the time the scan has ended.
RetryRebuilt(p) == PurgedRetry(p)

\* Lines 824-852: the buffer is replaced, the first page of the scan is handled.
PurgeScan ==
    /\ Suspended /\ bg_purge # <<>> /\ Resumable
    /\ bg_purge' = Tail(bg_purge)
    /\ bg_scan' = Append(bg_scan, [phone |-> Head(bg_purge), seen |-> retry_tasks])
    /\ LET p == Head(bg_purge) IN
       /\ task_buffer' = Filter(task_buffer, NotOf, p)
       /\ \E page \in SUBSET task_queue :
            task_queue' = task_queue \ { t \in page : ~NotOf(t, p) }
       /\ ev' = [kind |-> "purge_scan", phone |-> p,
                 ops |-> <<"acquire", "assign", "release", "zscan">>
                            \o Opt(task_queue' # task_queue, "zrem")]
    /\ UNCHANGED <<clock, running, pc, retry_tasks, ready_tasks,
                   expired_tasks, inflight, loop_time, iter, bg_reorder,
                   fail, status, last_used, live, shards, active_shards, performed, faults,
                   last_ban_check, ban_accounts, probed, last_pull, pool, crashes,
                   buffer_updating>>

\* Lines 838-876: the last page of the scan, and "retry_tasks" read and written again.
PurgeRest ==
    /\ Suspended /\ bg_scan # <<>>
    /\ bg_scan' = Tail(bg_scan)
    /\ LET p == Head(bg_scan).phone IN
       /\ task_queue' = { t \in task_queue : NotOf(t, p) }
       /\ retry_tasks' = RetryRebuilt(p)
       /\ ev' = [kind |-> "purge", phone |-> p, seen |-> Head(bg_scan).seen,
                 ops |-> <<"zscan">> \o Opt(task_queue' # task_queue, "zrem")
                            \o <<"lrange">>
                            \o Opt(retry_tasks # <<>>, "delete")
                            \o Opt(RetryRebuilt(p) # <<>>, "lpush")]
    /\ UNCHANGED <<clock, running, pc, task_buffer, ready_tasks,
                   expired_tasks, inflight, loop_time, iter, bg_reorder, bg_purge,
                   fail, status, last_used, live, shards, active_shards, performed, faults,
                   last_ban_check, ban_accounts, probed, last_pull, pool, crashes,
                   buffer_updating>>

(***************************************************************************)
(* The environment: connections drop, the process stops and starts.        *)
(***************************************************************************)
\* A client loses its connection: get_client no longer returns it.  The event loop
\* sees the connection go only while the main loop awaits.
ConnectionLost ==
    /\ Suspended
    /\ \E p \in live \cap Unstable : live' = live \ {p}
    /\ ev' = NoEv
    /\ UNCHANGED <<clock, running, pc, task_queue, task_buffer, retry_tasks, ready_tasks,
                   expired_tasks, inflight, loop_time, iter, bg_reorder, bg_purge,
                   fail, status, last_used, shards, active_shards, performed, faults,
                   last_ban_check, ban_accounts, probed, last_pull, pool, crashes, buffer_updating,
                   bg_scan>>

FlushedDue ==
    task_queue \cup { WithoutScore(task_buffer[i]) :
                        i \in { j \in DOMAIN task_buffer : task_buffer[j].execute_at <= clock } }

\* Lines 1487-1503: the buffered tasks go back to "task_queue" without their score key.
Flushed == task_queue \cup { WithoutScore(task_buffer[i]) : i \in DOMAIN task_buffer }

\* What a dying process leaves behind: redis and the accounts table.
ProcessEnds ==
    /\ running' = FALSE
    /\ pc' = "idle"
    /\ task_buffer' = <<>>
    /\ ready_tasks' = <<>>
    /\ expired_tasks' = <<>>
    /\ inflight' = <<>>
    /\ loop_time' = 0
    /\ iter' = 0
    /\ bg_reorder' = FALSE
    /\ bg_purge' = <<>>
    /\ bg_scan' = <<>>
    /\ live' = {}
    /\ last_ban_check' = 0
    /\ ban_accounts' = <<>>
    /\ last_pull' = NoPull
    /\ crashes' = 0
    /\ buffer_updating' = FALSE
    /\ UNCHANGED <<clock, retry_tasks, fail, status, last_used, shards, active_shards,
                   performed, faults, probed, pool>>

\* The main loop is cancelled in an await or sees running = False: start()'s finally
\* runs _shutdown, which waits for buffer_updating to be cleared.
Shutdown ==
    /\ Suspended
    /\ ~buffer_updating
    /\ task_queue' = Flushed
    /\ ProcessEnds
    /\ ev' = [kind |-> "shutdown", buffered |-> Range(task_buffer)]

\* The process is killed.  A kill inside a stretch of code without an await leaves
\* redis and the accounts table as a kill at the await before or after it does.
Crash ==
    /\ Suspended
    /\ ProcessEnds
    /\ ev' = [kind |-> "crash"]
    /\ UNCHANGED task_queue

\* A new process: TaskWorker(), start(), the sessions of the active accounts preloaded.
Start ==
    /\ ~running
    /\ running' = TRUE
    /\ live' = { p \in Phones : status[p] = "active" }
    /\ last_ban_check' = clock
    /\ ev' = [kind |-> "start"]
    /\ UNCHANGED <<clock, pc, task_queue, task_buffer, retry_tasks, ready_tasks,
                   expired_tasks, inflight, loop_time, iter, bg_reorder, bg_purge,
                   fail, status, last_used, shards, active_shards, performed, faults,
                   ban_accounts, probed, last_pull, pool, crashes, buffer_updating, bg_scan>>

(***************************************************************************)
(* The scheduler (task_service.py), a process of its own: it writes the    *)
(* tasks of a new post or channel into shard sorted sets and registers     *)
(* the shards.  The spreading of the execution times over the period is    *)
(* left open: a task is due ScheduleDelays seconds after the request.      *)
(***************************************************************************)
ScheduleDelays == {200}

ScheduledPhones == {"p1"}

ShardInterval(ty) == IF ty = "view" THEN view_shard_interval ELSE subscription_shard_interval

ShardIdTruncated(execute_at, current_time, ty) ==
    IF execute_at < current_time
    THEN 0 - ((current_time - execute_at) \div ShardInterval(ty))
    ELSE (execute_at - current_time) \div ShardInterval(ty)

\* int((execute_at - current_time) // shard_interval)
ShardId(execute_at, current_time, ty) == (execute_at - current_time) \div ShardInterval(ty)

\* f"view_shard_{int(shard_start_time)}_{shard_id}" / f"sub_shard_..."
ShardKey(current_time, shard_id, ty) ==
    <<IF ty = "view" THEN "view_shard" ELSE "sub_shard",
      current_time + shard_id * ShardInterval(ty), shard_id>>

\* The record the scheduler stores for one task.
ShardEntry(p, ty, execute_at, current_time) ==
    [key  |-> ShardKey(current_time, ShardId(execute_at, current_time, ty), ty),
     task |-> Task(p, "c3", ty, execute_at)]

\* shard_meta of _register_active_shards / _register_active_subscription_shards
ShardMeta(current_time, shard_id, ty) ==
    [shard_key  |-> ShardKey(current_time, shard_id, ty),
     shard_id   |-> shard_id,
     start_time |-> current_time + shard_id * ShardInterval(ty),
     end_time   |-> current_time + shard_id * ShardInterval(ty) + ShardInterval(ty),
     type       |-> ty]

\* The shard keys registered in the shard indexes.
RegisteredKeys == { m.shard_key : m \in active_shards }

\* One task is stored in its shard and the shard is registered.
ScheduleOne(p, ty, execute_at, current_time) ==
    /\ shards' = shards \cup {ShardEntry(p, ty, execute_at, current_time)}
    /\ active_shards' = active_shards
            \cup {ShardMeta(current_time, ShardId(execute_at, current_time, ty), ty)}

\* _schedule_sharded_batches (ty = "view") and _schedule_sharded_subscription_tasks
\* (ty = "subscription") for one task, with the registration of its shard.
Schedule ==
    /\ Cardinality(shards) < MaxScheduled
    /\ \E p \in ScheduledPhones, ty \in {"view", "subscription"}, delay \in ScheduleDelays :
        ScheduleOne(p, ty, clock + delay, clock)
    /\ ev' = NoEv
    /\ UNCHANGED <<clock, running, pc, task_queue, task_buffer, retry_tasks, ready_tasks,
                   expired_tasks, inflight, loop_time, iter, bg_reorder, bg_purge,
                   fail, status, last_used, live, performed, faults,
                   last_ban_check, ban_accounts, probed, last_pull, pool, crashes, buffer_updating,
                   bg_scan>>

(***************************************************************************)
(* The session pool of session_manager.py.  A connection is a pair of the  *)
(* identity and a serial number; clients maps an identity to the           *)
(* connection its handle holds.                                            *)
(***************************************************************************)
MaxOpened == 4

\* client.is_connected() of the handle of p
IsConnected(p) == <<p, pool.clients[p]>> \in pool.open

HasHandle(p) == pool.clients[p] # Null

\* len(self.clients)
Handles(pl) == Cardinality({ p \in Phones : pl.clients[p] # Null })

\* self.clients[session_data] = client after _create_and_validate_client returned a
\* connected client: the handle p had before is replaced, nothing is closed.
Stored(pl, p) ==
    [pl EXCEPT !.clients[p] = pl.opened + 1,
               !.open = @ \cup {<<p, pl.opened + 1>>},
               !.opened = @ + 1]

\* _create_and_validate_client raises: it has disconnected the client it created.
NotStored(pl) == [pl EXCEPT !.opened = @ + 1]

\* remove_session: a connected handle is disconnected, the entries are dropped.
Removed(pl, p) ==
    IF pl.clients[p] = Null THEN pl
    ELSE [pl EXCEPT !.clients[p] = Null,
                    !.open = @ \ {<<p, pl.clients[p]>>},
                    !.failed_sessions = @ \ {p}]

\* add_new_session on the pool pl
Added(pl, p, ok) ==
    IF Handles(pl) >= pl.max_sessions THEN pl
    ELSE IF ok THEN Stored(pl, p)
    ELSE NotStored(pl)

PoolEv(op, p) == [kind |-> "pool", op |-> op, phone |-> p, had |-> HasHandle(p)]

\* _load_batch with the accounts `ok` creating their clients and the others failing:
\* every client created is stored under its session, the others are noted as failed.
Loaded(pl, ok) ==
    [pl EXCEPT !.clients = [p \in Phones |->
                                IF p \in ok THEN pl.opened + PhoneIdx(p) ELSE @[p]],
               !.open = @ \cup { <<p, pl.opened + PhoneIdx(p)>> : p \in ok },
               !.failed_sessions = @ \cup (Phones \ ok),
               !.opened = @ + Cardinality(Phones)]

\* preload_all_sessions: the accounts are loaded in one batch of _load_batch, which
\* skips them all when the pool is full, and loading is complete.
Preload ==
    /\ ~pool.loading_complete
    /\ pool.opened + Cardinality(Phones) <= MaxOpened
    /\ \E ok \in SUBSET Phones :
        /\ pool' = IF Handles(pool) >= pool.max_sessions
                   THEN [pool EXCEPT !.loading_complete = TRUE]
                   ELSE [Loaded(pool, ok) EXCEPT !.loading_complete = TRUE]
        /\ ev' = [kind |-> "pool", op |-> "preload", ok |-> ok]
    /\ UNCHANGED <<clock, running, pc, task_queue, task_buffer, retry_tasks, ready_tasks,
                   expired_tasks, inflight, loop_time, iter, bg_reorder, bg_purge,
                   fail, status, last_used, live, shards, active_shards, performed, faults,
                   last_ban_check, ban_accounts, probed, last_pull, crashes, buffer_updating,
                   bg_scan>>

\* add_new_session(account), called by the account service once loading is complete.
AddNewSession ==
    /\ pool.loading_complete
    /\ pool.opened < MaxOpened
    /\ \E p \in Phones, ok \in BOOLEAN :
        /\ pool' = Added(pool, p, ok)
        /\ ev' = PoolEv("add", p)
    /\ UNCHANGED <<clock, running, pc, task_queue, task_buffer, retry_tasks, ready_tasks,
                   expired_tasks, inflight, loop_time, iter, bg_reorder, bg_purge,
                   fail, status, last_used, live, shards, active_shards, performed, faults,
                   last_ban_check, ban_accounts, probed, last_pull, crashes, buffer_updating,
                   bg_scan>>

\* remove_session / remove_session_by_phone
RemoveSession ==
    /\ \E p \in Phones :
        /\ HasHandle(p)
        /\ pool' = Removed(pool, p)
        /\ ev' = PoolEv("remove", p)
    /\ UNCHANGED <<clock, running, pc, task_queue, task_buffer, retry_tasks, ready_tasks,
                   expired_tasks, inflight, loop_time, iter, bg_reorder, bg_purge,
                   fail, status, last_used, live, shards, active_shards, performed, faults,
                   last_ban_check, ban_accounts, probed, last_pull, crashes, buffer_updating,
                   bg_scan>>

\* reload_single_session: remove_session_by_phone, then add_new_session.
ReloadSingleSession ==
    /\ pool.opened < MaxOpened
    /\ \E p \in Phones, ok \in BOOLEAN :
        /\ pool' = Added(Removed(pool, p), p, ok)
        /\ ev' = PoolEv("reload", p)
    /\ UNCHANGED <<clock, running, pc, task_queue, task_buffer, retry_tasks, ready_tasks,
                   expired_tasks, inflight, loop_time, iter, bg_reorder, bg_purge,
                   fail, status, last_used, live, shards, active_shards, performed, faults,
                   last_ban_check, ban_accounts, probed, last_pull, crashes, buffer_updating,
                   bg_scan>>

\* health_check on the handle of p: a handle that is not connected, or whose get_me
\* fails or times out, is dropped from clients and noted as failed; it is not
\* disconnected.
HealthCheck ==
    /\ pool.loading_complete
    /\ \E p \in Phones, ping \in BOOLEAN :
        /\ HasHandle(p)
        /\ pool' = IF IsConnected(p) /\ ping THEN pool
                   ELSE [pool EXCEPT !.clients[p] = Null,
                                     !.failed_sessions = @ \cup {p}]
        /\ ev' = PoolEv("health", p)
    /\ UNCHANGED <<clock, running, pc, task_queue, task_buffer, retry_tasks, ready_tasks,
                   expired_tasks, inflight, loop_time, iter, bg_reorder, bg_purge,
                   fail, status, last_used, live, shards, active_shards, performed, faults,
                   last_ban_check, ban_accounts, probed, last_pull, crashes, buffer_updating,
                   bg_scan>>

\* get_client: a handle that is no longer connected is dropped from the cache.
GetClient ==
    /\ pool.loading_complete
    /\ \E p \in Phones :
        /\ p \notin pool.failed_sessions
        /\ HasHandle(p) /\ ~IsConnected(p)
        /\ pool' = [pool EXCEPT !.clients[p] = Null]
        /\ ev' = PoolEv("get", p)
    /\ UNCHANGED <<clock, running, pc, task_queue, task_buffer, retry_tasks, ready_tasks,
                   expired_tasks, inflight, loop_time, iter, bg_reorder, bg_purge,
                   fail, status, last_used, live, shards, active_shards, performed, faults,
                   last_ban_check, ban_accounts, probed, last_pull, crashes, buffer_updating,
                   bg_scan>>

\* The network closes a connection.
ConnectionClosed ==
    /\ \E c \in pool.open : pool' = [pool EXCEPT !.open = @ \ {c}]
    /\ ev' = NoEv
    /\ UNCHANGED <<clock, running, pc, task_queue, task_buffer, retry_tasks, ready_tasks,
                   expired_tasks, inflight, loop_time, iter, bg_reorder, bg_purge,
                   fail, status, last_used, live, shards, active_shards, performed, faults,
                   last_ban_check, ban_accounts, probed, last_pull, crashes, buffer_updating,
                   bg_scan>>

PoolNext ==
    \/ Preload
    \/ AddNewSession
    \/ RemoveSession
    \/ ReloadSingleSession
    \/ HealthCheck
    \/ GetClient
    \/ ConnectionClosed

PoolSpec == Init /\ [][PoolNext]_vars

\* The pool made with a limit of SmallSessions sessions (MAX_SESSIONS in the environment).
CapInit ==
    /\ clock = 0
    /\ running = TRUE
    /\ pc = "idle"
    /\ task_queue = QueuedTasks
    /\ task_buffer = <<>>
    /\ retry_tasks = <<>>
    /\ ready_tasks = <<>>
    /\ expired_tasks = <<>>
    /\ inflight = <<>>
    /\ loop_time = 0
    /\ iter = 0
    /\ bg_reorder = FALSE
    /\ bg_purge = <<>>
    /\ bg_scan = <<>>
    /\ fail = InitialFail
    /\ status = [p \in Phones |-> "active"]
    /\ last_used = [p \in Phones |-> 0]
    /\ live = Phones
    /\ shards = {}
    /\ active_shards = {}
    /\ performed = [k \in Keys |-> 0]
    /\ faults = 0
    /\ last_ban_check = 0
    /\ ban_accounts = <<>>
    /\ probed = [p \in Phones |-> Null]
    /\ last_pull = NoPull
    /\ pool = [NoPool EXCEPT !.max_sessions = SmallSessions]
    /\ crashes = 0
    /\ buffer_updating = FALSE
    /\ ev = NoEv

CapSpec == CapInit /\ [][PoolNext]_vars

(***************************************************************************)
(* The loading of one account by the preload: the attempts of              *)
(* _create_and_validate_client and what _load_batch does with the result.  *)
(* The outcome of an attempt is a connected and authorized client ("ok"),  *)
(* one of the exceptions of telethon, a session that is not authorized, or *)
(* any other exception ("error").                                          *)
(***************************************************************************)
LoadAttempts == 3

AttemptOutcomes ==
    {"ok", "flood", "auth_key_invalid", "password_needed", "not_authorized", "error"}

\* Lines 204-207: the exceptions that leave the loop of the attempts at once.
NotRetried(outcome) == outcome \in {"auth_key_invalid", "password_needed"}

\* Lines 160-219: the attempts made and the client or the exception they end with,
\* from attempt number `attempt` on.
RECURSIVE CreateAndValidate(_, _)
CreateAndValidate(outcomes, attempt) ==
    LET outcome == outcomes[attempt + 1]
        made == SubSeq(outcomes, 1, attempt + 1)
    IN  IF outcome = "ok" THEN [made |-> made, result |-> "client"]
        ELSE IF NotRetried(outcome)
        THEN [made |-> made, result |-> "InvalidSessionError"]
        ELSE IF attempt = LoadAttempts - 1
        THEN [made |-> made,
              result |-> IF outcome = "flood" THEN "RateLimitError" ELSE "SessionError"]
        ELSE CreateAndValidate(outcomes, attempt + 1)

\* Lines 147-150: isinstance(result, (AuthKeyInvalidError, InvalidSessionError))
MarkedBanned(result) == result = "InvalidSessionError"

\* _load_batch for a batch of one account that is not loaded yet.
LoadAccount ==
    /\ ~pool.loading_complete
    /\ pool.opened + LoadAttempts <= MaxOpened
    /\ Handles(pool) < pool.max_sessions
    /\ \E p \in Phones, outcomes \in [1..LoadAttempts -> AttemptOutcomes] :
        LET load == CreateAndValidate(outcomes, 0) IN
        /\ ~HasHandle(p) /\ p \notin pool.failed_sessions
        /\ pool' = IF load.result = "client"
                   THEN [Stored(pool, p) EXCEPT !.opened = pool.opened + Len(load.made)]
                   ELSE [pool EXCEPT !.failed_sessions = @ \cup {p},
                                     !.opened = @ + Len(load.made)]
        /\ status' = IF MarkedBanned(load.result)
                     THEN [status EXCEPT ![p] = "ban"]
                     ELSE status
        /\ ev' = [kind |-> "load", phone |-> p, made |-> load.made,
                  result |-> load.result]
    /\ UNCHANGED <<clock, running, pc, task_queue, task_buffer, retry_tasks, ready_tasks,
                   expired_tasks, inflight, loop_time, iter, bg_reorder, bg_purge,
                   fail, last_used, live, shards, active_shards, performed, faults,
                   last_ban_check, ban_accounts, probed, last_pull, crashes, buffer_updating,
                   bg_scan>>

\* preload_all_sessions after its last batch
PreloadEnds ==
    /\ ~pool.loading_complete
    /\ pool' = [pool EXCEPT !.loading_complete = TRUE]
    /\ ev' = NoEv
    /\ UNCHANGED <<clock, running, pc, task_queue, task_buffer, retry_tasks, ready_tasks,
                   expired_tasks, inflight, loop_time, iter, bg_reorder, bg_purge,
                   fail, status, last_used, live, shards, active_shards, performed, faults,
                   last_ban_check, ban_accounts, probed, last_pull, crashes, buffer_updating,
                   bg_scan>>

LoadNext ==
    \/ LoadAccount
    \/ PreloadEnds

LoadSpec == Init /\ [][LoadNext]_vars

(***************************************************************************)
(* The placing of tasks in shards, over the delays the scheduler may give  *)
(* a task.  A view task is due between 30 s after the request and the end  *)
(* of the period (task_service.py:182-183); a subscription task gets its   *)
(* execute_at in create_subscription_tasks, SubLag seconds before          *)
(* _schedule_sharded_subscription_tasks reads the clock again.             *)
(***************************************************************************)
ViewDelays == {30, 899, 900, 1000}

SubDelays == {30, 3599, 3600}

SubLag == {0, 50}

MaxSharded == 2

ShardSchedule ==
    /\ Cardinality(shards) < MaxSharded
    /\ \E p \in ScheduledPhones :
        \/ \E delay \in ViewDelays :
            /\ ScheduleOne(p, "view", clock + delay, clock)
            /\ ev' = [kind |-> "scheduled", at |-> clock,
                      entry |-> ShardEntry(p, "view", clock + delay, clock)]
        \/ \E delay \in SubDelays, lag \in SubLag :
            /\ clock >= lag
            /\ ScheduleOne(p, "subscription", clock - lag + delay, clock)
            /\ ev' = [kind |-> "scheduled", at |-> clock,
                      entry |-> ShardEntry(p, "subscription", clock - lag + delay, clock)]
    /\ UNCHANGED <<clock, running, pc, task_queue, task_buffer, retry_tasks, ready_tasks,
                   expired_tasks, inflight, loop_time, iter, bg_reorder, bg_purge,
                   fail, status, last_used, live, performed, faults,
                   last_ban_check, ban_accounts, probed, last_pull, pool, crashes, buffer_updating,
                   bg_scan>>

ShardNext ==
    \/ Tick
    \/ ShardSchedule

ShardSpec == Init /\ [][ShardNext]_vars

(***************************************************************************)
(* One request of views for a post with redis failing: _schedule_sharded_  *)
(* batches writes the shards of the request one by one and then has        *)
(* _register_active_shards register them one by one.                       *)
(***************************************************************************)
\* The tasks of the request: one per account, due delays[i] after the request.
BatchEntries(delays) ==
    { ShardEntry(p, "view", clock + delays[PhoneIdx(p)], clock) : p \in Phones }

\* The shard ids of shards_map in the order of their first task.
BatchShards(delays) ==
    LET first == ShardId(clock + delays[1], clock, "view")
        second == ShardId(clock + delays[2], clock, "view")
    IN  IF first = second THEN <<first>> ELSE <<first, second>>

\* Lines 271-275: the entries of the first n shards are in redis.
BatchWritten(delays, n) ==
    { e \in BatchEntries(delays) :
        \E i \in 1..n : i <= Len(BatchShards(delays)) /\ e.key[3] = BatchShards(delays)[i] }

\* Line 313: the metadata of the first n shards are in "active_view_shards".
BatchRegistered(delays, n) ==
    { ShardMeta(clock, BatchShards(delays)[i], "view") :
        i \in { j \in 1..n : j <= Len(BatchShards(delays)) } }

\* Lines 288-291: an exception of the writing is raised as TaskProcessingError.
\* Lines 321-322: an exception of the registration is logged.
BatchResult(fault) == IF fault = "zadd" THEN "error" ELSE "ok"

\* _schedule_sharded_batches; with fault "zadd" the zadd of shard number k raises,
\* with fault "register" the zadd of the metadata of shard number k.
ScheduleBatch ==
    /\ Cardinality(shards) < MaxSharded
    /\ \E d1 \in ViewDelays, d2 \in ViewDelays, fault \in {"none", "zadd", "register"},
          k \in 1..Cardinality(Phones) :
        LET delays == <<d1, d2>>
            all == Len(BatchShards(delays))
            written == IF fault = "zadd" THEN k - 1 ELSE all
            registered == IF fault = "zadd" THEN 0
                          ELSE IF fault = "register" THEN k - 1
                          ELSE all
        IN  /\ k <= all
            /\ fault = "none" => k = 1
            /\ shards' = shards \cup BatchWritten(delays, written)
            /\ active_shards' = active_shards \cup BatchRegistered(delays, registered)
            /\ ev' = [kind |-> "batch", at |-> clock, request |-> BatchEntries(delays),
                      fault |-> fault, result |-> BatchResult(fault)]
    /\ UNCHANGED <<clock, running, pc, task_queue, task_buffer, retry_tasks, ready_tasks,
                   expired_tasks, inflight, loop_time, iter, bg_reorder, bg_purge,
                   fail, status, last_used, live, performed, faults,
                   last_ban_check, ban_accounts, probed, last_pull, pool, crashes, buffer_updating,
                   bg_scan>>

BatchNext ==
    \/ Tick
    \/ ScheduleBatch

BatchSpec == Init /\ [][BatchNext]_vars

(***************************************************************************)
(* The execution times _create_sharded_view_batches gives the tasks of     *)
(* one request: duration seconds of window, n accounts, the task at        *)
(* position idx of the shuffled list.  The durations and the numbers of    *)
(* accounts are taken so that the divisions of the code are exact.         *)
(***************************************************************************)
MaxAccounts == 6

ViewDurations == {60, 120, 600, 3600}

Max(a, b) == IF a > b THEN a ELSE b

ViewIntervalShort(duration, n) ==
    Min(Max(IF n > 1 THEN duration \div n ELSE 0, 30), 120)

\* Lines 150-160: interval_per_account
ViewInterval(duration, n) ==
    Min(Max(IF n > 1 THEN duration \div n ELSE 0, 30), 300)

\* Lines 171-175: the time of the task before the randomization.
ViewBase(idx, duration, n, now) ==
    LET at == now + idx * ViewInterval(duration, n)
        max_time == now + duration - 60
    IN  IF at > max_time THEN max_time - (n - idx - 1) * 30 ELSE at

\* Line 177: randomization_range
ViewJitterRange(duration, n) == Min(ViewInterval(duration, n) \div 10, 30)

\* Lines 178-183, with random.uniform(-range, range) = jitter.
ViewExecuteAt(idx, duration, n, now, jitter) ==
    Min(Max(ViewBase(idx, duration, n, now) + jitter, now + 30), now + duration - 30)

\* The time of one task of one request.
ViewSpread ==
    /\ \E duration \in ViewDurations, n \in 1..MaxAccounts :
        /\ duration % n = 0
        /\ \E idx \in 0..(n - 1), sign \in {-1, 0, 1} :
            LET jitter == sign * ViewJitterRange(duration, n) IN
            ev' = [kind |-> "view_time", duration |-> duration, n |-> n, idx |-> idx,
                   now |-> clock, jitter |-> jitter,
                   execute_at |-> ViewExecuteAt(idx, duration, n, clock, jitter)]
    /\ UNCHANGED <<clock, running, pc, task_queue, task_buffer, retry_tasks, ready_tasks,
                   expired_tasks, inflight, loop_time, iter, bg_reorder, bg_purge,
                   fail, status, last_used, live, shards, active_shards, performed, faults,
                   last_ban_check, ban_accounts, probed, last_pull, pool, crashes,
                   buffer_updating, bg_scan>>

ViewNext ==
    \/ Tick
    \/ ViewSpread

ViewSpec == Init /\ [][ViewNext]_vars

(***************************************************************************)
(* The delays _calculate_precise_subscription_delay gives the accounts of  *)
(* one subscription request, in seconds, with the settings                 *)
(* _get_subscription_delays reads when the files of the settings hold      *)
(* nothing else.                                                           *)
(***************************************************************************)
base_delay == 1800

range_val == 300

accounts_delay == 600

timeout_count == 4

timeout_duration == 1200

\* Lines 432-459, with random.uniform(-range_val, range_val) = variation.
SubscriptionDelay(account_index, variation) ==
    LET account_delay == account_index * accounts_delay
        timeout_cycles == account_index \div timeout_count
        timeout_delay == timeout_cycles * timeout_duration
    IN  Max(account_delay + variation + timeout_delay, base_delay)

\* The delays of two accounts that follow each other in one request
\* (create_subscription_tasks, the loop over the shuffled accounts).
SubscribeSpread ==
    /\ \E idx \in 0..(MaxAccounts - 2), v \in {0 - range_val, 0, range_val},
          w \in {0 - range_val, 0, range_val} :
            ev' = [kind |-> "sub_delays", idx |-> idx, now |-> clock,
                   variation |-> v, next_variation |-> w,
                   delay |-> SubscriptionDelay(idx, v),
                   next_delay |-> SubscriptionDelay(idx + 1, w)]
    /\ UNCHANGED <<clock, running, pc, task_queue, task_buffer, retry_tasks, ready_tasks,
                   expired_tasks, inflight, loop_time, iter, bg_reorder, bg_purge,
                   fail, status, last_used, live, shards, active_shards, performed, faults,
                   last_ban_check, ban_accounts, probed, last_pull, pool, crashes,
                   buffer_updating, bg_scan>>

SubscribeNext ==
    \/ Tick
    \/ SubscribeSpread

SubscribeSpec == Init /\ [][SubscribeNext]_vars

(***************************************************************************)
(* The sweep over the quarantined identities: the test of _main_loop,      *)
(* lines 162-164, and _check_banned_accounts_for_retry.  A quarantined     *)
(* identity has no client in the pool (remove_session_by_phone at the      *)
(* quarantine, preload_all_sessions loads the active accounts only), so    *)
(* the probe ends in _handle_task_failure.  The sweep is followed here     *)
(* over days, with nothing queued: the rest of a main-loop iteration then  *)
(* does nothing.                                                           *)
(***************************************************************************)
ProbeInstants == {0, 3601, 432001, 435700, 864001, 864002}

ProbeTick ==
    /\ TimePasses(ProbeInstants)
    /\ ev' = NoEv

ProbeDueAlways(p, now) == status[p] = "ban"

\* The WHERE clause of get_ban_accounts_for_retry with NOW() = now.
ProbeDue(p, now) ==
    /\ status[p] = "ban"
    /\ last_used[p] = Null \/ last_used[p] < now - BanRetryWindow

\* ORDER BY last_used ASC NULLS FIRST LIMIT 100: the row lists the query may return.
BanAccountsForRetry(now) ==
    LET due == { p \in Phones : ProbeDue(p, now) }
        n   == Cardinality(due)
    IN  { Take(s, SweepLimit) : s \in
            { o \in [1..n -> due] :
                /\ \A i, j \in 1..n : i # j => o[i] # o[j]
                /\ \A i, j \in 1..n : i < j => last_used[o[i]] <= last_used[o[j]] } }

\* Line 162 finds the check due and the query returns its rows.
SweepStart ==
    /\ running /\ pc = "idle"
    /\ clock - last_ban_check > BanCheckEvery
    /\ ban_accounts' \in BanAccountsForRetry(clock)
    /\ pc' = "sweep"
    /\ ev' = NoEv
    /\ UNCHANGED <<clock, running, task_queue, task_buffer, retry_tasks, ready_tasks,
                   expired_tasks, inflight, loop_time, iter, bg_reorder, bg_purge,
                   fail, status, last_used, live, shards, active_shards, performed, faults,
                   last_ban_check, probed, last_pull, pool, crashes, buffer_updating, bg_scan>>

\* mark_account_retry_attempt(phone), then _execute_task(test_task) is awaited.
ProbeMark ==
    /\ running /\ pc = "sweep" /\ ban_accounts # <<>>
    /\ LET p == Head(ban_accounts) IN
       /\ last_used' = [last_used EXCEPT ![p] = clock]
       /\ probed' = [probed EXCEPT ![p] = clock]
       /\ ev' = [kind |-> "probe", phone |-> p, at |-> clock, previous |-> probed[p],
                 status_before |-> status[p]]
    /\ pc' = "probe_exec"
    /\ UNCHANGED <<clock, running, task_queue, task_buffer, retry_tasks, ready_tasks,
                   expired_tasks, inflight, loop_time, iter, bg_reorder, bg_purge,
                   fail, status, live, shards, active_shards, performed, faults,
                   last_ban_check, ban_accounts, last_pull, pool, crashes, buffer_updating,
                   bg_scan>>

\* _execute_subscription_task of the test task: get_client returns None.
ProbeNoClient ==
    /\ running /\ pc = "probe_exec"
    /\ LET p == Head(ban_accounts) IN
       /\ ~get_client(p)
       /\ fail[p] < MaxFail
       /\ HandleFailure(p)
       /\ ev' = [kind |-> "probe_exec", phone |-> p, at |-> clock, outcome |-> "no_client",
                 fail_before |-> fail[p], fail_after |-> fail'[p],
                 status_after |-> status'[p],
                 purge |-> Len(bg_purge') > Len(bg_purge)]
    /\ pc' = "probe_sleep"
    /\ UNCHANGED <<clock, running, task_queue, task_buffer, retry_tasks, ready_tasks,
                   expired_tasks, inflight, loop_time, iter, bg_reorder,
                   shards, active_shards, performed, faults,
                   last_ban_check, ban_accounts, probed, last_pull, pool, crashes, buffer_updating,
                   bg_scan>>

\* asyncio.sleep(random.uniform(30, 60)) is over: on to the next account.
ProbeNext ==
    /\ running /\ pc = "probe_sleep" /\ Resumable
    /\ ban_accounts' = Tail(ban_accounts)
    /\ pc' = "sweep"
    /\ ev' = NoEv
    /\ UNCHANGED <<clock, running, task_queue, task_buffer, retry_tasks, ready_tasks,
                   expired_tasks, inflight, loop_time, iter, bg_reorder, bg_purge,
                   fail, status, last_used, live, shards, active_shards, performed, faults,
                   last_ban_check, probed, last_pull, pool, crashes, buffer_updating, bg_scan>>

\* The sweep returns; line 164.
SweepEnd ==
    /\ running /\ pc = "sweep" /\ ban_accounts = <<>>
    /\ last_ban_check' = clock
    /\ pc' = "idle"
    /\ ev' = NoEv
    /\ UNCHANGED <<clock, running, task_queue, task_buffer, retry_tasks, ready_tasks,
                   expired_tasks, inflight, loop_time, iter, bg_reorder, bg_purge,
                   fail, status, last_used, live, shards, active_shards, performed, faults,
                   ban_accounts, probed, last_pull, pool, crashes, buffer_updating, bg_scan>>

\* Both identities were quarantined when their sessions failed to load
\* (session_manager.py:149), nothing is queued.
SweepInit ==
    /\ clock = 0
    /\ running = TRUE
    /\ pc = "idle"
    /\ task_queue = {}
    /\ task_buffer = <<>>
    /\ retry_tasks = <<>>
    /\ ready_tasks = <<>>
    /\ expired_tasks = <<>>
    /\ inflight = <<>>
    /\ loop_time = 0
    /\ iter = 0
    /\ bg_reorder = FALSE
    /\ bg_purge = <<>>
    /\ bg_scan = <<>>
    /\ fail = InitialFail
    /\ status = [p \in Phones |-> "ban"]
    /\ last_used = [p \in Phones |-> 0]
    /\ live = {}
    /\ shards = {}
    /\ active_shards = {}
    /\ performed = [k \in Keys |-> 0]
    /\ faults = 0
    /\ last_ban_check = 0
    /\ ban_accounts = <<>>
    /\ probed = [p \in Phones |-> Null]
    /\ last_pull = NoPull
    /\ pool = NoPool
    /\ crashes = 0
    /\ buffer_updating = FALSE
    /\ ev = NoEv

SweepNext ==
    \/ ProbeTick
    \/ SweepStart
    \/ ProbeMark
    \/ ProbeNoClient
    \/ ProbeNext
    \/ SweepEnd
    \/ Purge
    \/ Crash
    \/ Start

SweepSpec == SweepInit /\ [][SweepNext]_vars

Next ==
    \/ Tick
    \/ NoCommand
    \/ ForceStart
    \/ ForceStep
    \/ ForceResume
    \/ SpawnReorder
    \/ Fill
    \/ ProcessSplit
    \/ StartBatch
    \/ BatchDone
    \/ Exec
    \/ RetryStart
    \/ RetryStep
    \/ RetryResume
    \/ ReorderShort
    \/ ReorderFull
    \/ Purge
    \/ ConnectionLost
    \/ Shutdown
    \/ Crash
    \/ Start


Spec == Init /\ [][Next]_vars

\* What the worker process does by itself.
WorkerStep ==
    \/ NoCommand
    \/ SpawnReorder
    \/ Fill
    \/ ProcessSplit
    \/ StartBatch
    \/ BatchDone
    \/ Exec
    \/ RetryStart
    \/ RetryStep
    \/ RetryResume
    \/ ReorderShort
    \/ ReorderFull
    \/ Purge

\* One run of the worker with a redis that may fail under it.
FaultNext ==
    \/ Tick
    \/ WorkerStep
    \/ ConnectionLost
    \/ ReorderFails

FaultSpec == Init /\ [][FaultNext]_vars

\* A previous run left a view task in "retry_tasks" that was rate-limited twice.
(***************************************************************************)
(* A cycle of _main_loop that ends in an exception, lines 213-215: the     *)
(* error is logged, the loop sleeps 5 seconds and goes on.                 *)
(***************************************************************************)
MaxCrashes == 3

\* An exception leaves _process_buffer_tasks_with_session_check between two batches,
\* where nothing catches it: the ready and expired tasks of the cycle are gone with
\* its local lists.
LoopCrash ==
    /\ running /\ pc = "batch"
    /\ crashes < MaxCrashes
    /\ crashes' = crashes + 1
    /\ ready_tasks' = <<>>
    /\ expired_tasks' = <<>>
    /\ pc' = "idle"
    /\ ev' = [kind |-> "loop_crash", at |-> clock]
    /\ UNCHANGED <<clock, running, task_queue, task_buffer, retry_tasks,
                   inflight, loop_time, iter, bg_reorder, bg_purge,
                   fail, status, last_used, live, shards, active_shards, performed, faults,
                   last_ban_check, ban_accounts, probed, last_pull, pool, buffer_updating, bg_scan>>

CrashNext ==
    \/ Tick
    \/ WorkerStep
    \/ LoopCrash

CrashSpec == Init /\ [][CrashNext]_vars

(***************************************************************************)
(* The worker with the forced processing and the cleanups of its buffer,   *)
(* in one process that runs on.                                            *)
(***************************************************************************)
BufferNext ==
    \/ Tick
    \/ WorkerStep
    \/ ForceStart
    \/ ForceStep
    \/ ForceResume
    \/ ConnectionLost
    \/ CleanupDeadSessions
    \/ CleanupExpired

BufferSpec == Init /\ [][BufferNext]_vars

RetryLeft == RetryRecord(RetryRecord(Task("p2", "c2", "view", 400), 10, RetryJitterMin, 100),
                         10, RetryJitterMin, 400)

RetryInit ==
    /\ clock = 0
    /\ running = TRUE
    /\ pc = "idle"
    /\ task_queue = QueuedTasks
    /\ task_buffer = <<>>
    /\ retry_tasks = <<RetryLeft>>
    /\ ready_tasks = <<>>
    /\ expired_tasks = <<>>
    /\ inflight = <<>>
    /\ loop_time = 0
    /\ iter = 0
    /\ bg_reorder = FALSE
    /\ bg_purge = <<>>
    /\ bg_scan = <<>>
    /\ fail = InitialFail
    /\ status = [p \in Phones |-> "active"]
    /\ last_used = [p \in Phones |-> 0]
    /\ live = Phones
    /\ shards = {}
    /\ active_shards = {}
    /\ performed = [k \in Keys |-> 0]
    /\ faults = 0
    /\ last_ban_check = 0
    /\ ban_accounts = <<>>
    /\ probed = [p \in Phones |-> Null]
    /\ last_pull = NoPull
    /\ pool = NoPool
    /\ crashes = 0
    /\ buffer_updating = FALSE
    /\ ev = NoEv

\* One run of the worker over that backend.
RetryNext ==
    \/ Tick
    \/ WorkerStep

RetrySpec == RetryInit /\ [][RetryNext]_vars

\* One run of the worker with purges that sleep between two pages of their scan.
PagedStep ==
    \/ NoCommand
    \/ SpawnReorder
    \/ Fill
    \/ ProcessSplit
    \/ StartBatch
    \/ BatchDone
    \/ Exec
    \/ RetryStart
    \/ RetryStep
    \/ RetryResume
    \/ ReorderShort
    \/ ReorderFull
    \/ PurgeScan
    \/ PurgeRest

PagedNext ==
    \/ Tick
    \/ PagedStep

PagedSpec == RetryInit /\ [][PagedNext]_vars

(***************************************************************************)
(* Properties of the worker.                                               *)
(***************************************************************************)
\* C1: no task has its view / join request accepted by the platform more than once.
C1_PerformedOnce == \A k \in Keys : performed[k] <= 1

\* The tasks the worker took from "task_queue" and has not handed to the platform yet.
Held ==
    Range(task_buffer) \cup Range(ready_tasks)
        \cup { inflight[i].task : i \in { j \in DOMAIN inflight : inflight[j].stage = "start" } }

\* The record is in the backend, for a later run of the worker to find.
Available(t) == WithoutScore(t) \in task_queue \/ t \in task_queue \/ t \in Range(retry_tasks)

\* C2: a task the worker removed from "task_queue" and has not executed yet (it sits in
\* the buffer or in the ready set of the running cycle) is still available in the
\* backend after the worker crashed.
C2_CrashKeepsTasks == [][ev'.kind = "crash" => \A t \in Held : Available(t)']_vars

\* C4: a task is executed, in the normal cycle or by forced processing,
\* only when the clock has reached its execute_at.
C4_NotBeforeSchedule == ev.kind \in {"request", "exec"} => ev.at >= ev.task.execute_at

\* C4, with the margin of the readiness test: a task is executed, in the normal cycle or by forced processing, at
\* most ReadyMargin seconds before its execute_at.
C4_NotBeforeMargin ==
    ev.kind \in {"request", "exec"} => ev.at + ReadyMargin >= ev.task.execute_at

\* C4, the case: forced processing has a request accepted ahead of the task's time.
C4_ForcedAhead ==
    /\ ev.kind = "exec" /\ ev.outcome = "accepted" /\ ev.path = "force_exec"
    /\ ev.at < ev.task.execute_at

\* C5: a failure runs the quarantine branch exactly when it brings the count to
\* BanThreshold: not at 1 or 2, and not again at a 4th or later failure.
C5_ExactlyAtThreshold ==
    ev.kind = "exec" /\ ev.fail_after > ev.fail_before
        => (ev.quarantine <=> ev.fail_after = BanThreshold)

\* C6: after a success the count is 0, and every execution that ends in
\* anything but success raises the count by exactly 1.
C6_EveryFailureCounts ==
    /\ ev.kind = "success" => fail[ev.task.phone] = 0
    /\ ev.kind = "exec" /\ ev.outcome # "accepted" => ev.fail_after = ev.fail_before + 1

\* C6, by outcome: after a success the count is 0; an execution that finds no client or
\* ends in an error raises it by exactly 1; a rate-limited execution and a task of a
\* type the executor does not handle leave it as it was.
C6_CounterSteps ==
    /\ ev.kind = "success" => fail[ev.task.phone] = 0 /\ ev.fail_after = 0
    /\ ev.kind = "exec" /\ ev.outcome \in {"no_client", "error"}
        => ev.fail_after = ev.fail_before + 1 /\ fail[ev.task.phone] = ev.fail_after
    /\ ev.kind = "exec" /\ ev.outcome \in {"flood", "unknown_type", "accepted"}
        => ev.fail_after = ev.fail_before /\ fail[ev.task.phone] = ev.fail_before

\* C6, the case: a success clears a count that failures had raised.
C6_SuccessClears == ev.kind = "success" /\ ev.fail_before > 0 /\ fail[ev.task.phone] = 0

\* C8: a reconciliation pass leaves in the buffer every task of a connected identity
\* that is ready (execute_at <= now), and what it writes back to "task_queue" are
\* tasks of the future (execute_at > now).
C8_ReorderKeepsReady ==
    [][ev'.kind \in {"reorder", "reorder_failed"} =>
        /\ \A i \in DOMAIN task_buffer :
            task_buffer[i].execute_at <= clock /\ get_client(task_buffer[i].phone)
                => task_buffer[i] \in Range(task_buffer')
        /\ \A t \in ev'.returned \cup (task_queue' \ task_queue) : t.execute_at > clock]_vars

\* C8, the case: a pass kept a ready task in the buffer and wrote a future one back.
C8_KeptAndReturned ==
    /\ ev.kind = "reorder"
    /\ ev.returned # {}
    /\ \E t \in ev.kept : t.execute_at <= ev.at /\ t \in Range(task_buffer)

\* C10: no task is executed, on the normal, the retry or the forced path, when it is
\* more than ExpiredAfter seconds past its execute_at.
C10_NeverStale == ev.kind = "request" => ev.task.execute_at >= ev.at - ExpiredAfter

(***************************************************************************)
(* The worker with the scheduler beside it.  The event loop runs every     *)
(* coroutine that is ready, so each step of the main loop, of the          *)
(* executions and of the created tasks is taken when it stays enabled;     *)
(* nothing is assumed of the scheduler, of time and of the environment.    *)
(***************************************************************************)
SchedNext ==
    \/ Tick
    \/ Schedule
    \/ WorkerStep

SchedSpec == Init /\ [][SchedNext]_vars /\ WF_vars(WorkerStep)

(***************************************************************************)
(* Migration from the shards to the buffer, and the purge of a             *)
(* quarantined identity.                                                   *)
(***************************************************************************)
\* The record is in the worker's buffer.
InBuffer(t) == \E i \in DOMAIN task_buffer : WithoutScore(task_buffer[i]) = t

\* A stored, registered task of a connected identity that is within the horizon of fill.
Migratable(e) ==
    /\ e \in shards
    /\ e.key \in RegisteredKeys
    /\ get_client(e.task.phone)
    /\ e.task.execute_at <= clock + ReadyMargin

\* C3: every task the scheduler stored in a registered shard comes to sit in the
\* worker's buffer once its time is within the near-term horizon, when its identity
\* has a live connection.
C3_ShardTaskMigrates ==
    (\E e \in shards : Migratable(e)) ~> (\E e \in shards : InBuffer(e.task))

\* The tasks of identity p that are outstanding in the buffer, in "task_queue", in the
\* shards and in "retry_tasks".
Outstanding(p) ==
    { t \in Range(task_buffer) \cup task_queue \cup { e.task : e \in shards }
            \cup Range(retry_tasks) : t.phone = p }

\* C7: when the purge pass of a quarantined identity has completed, the identity has
\* no outstanding task in the buffer, in the backend (task queue and shards) or in the
\* retry list.
C7_PurgedHasNothing == ev.kind = "purge" => Outstanding(ev.phone) = {}

(***************************************************************************)
(* Properties of the sweep over the quarantined identities.                *)
(***************************************************************************)
\* C9: a quarantined identity is probed at most once in any BanRetryWindow: a sweep
\* probes an identity only if its last probe is more than BanRetryWindow seconds back,
\* and the probe sets the identity's last_used to the time of the probe.
C9_OneProbePerWindow ==
    ev.kind = "probe" =>
        /\ ev.status_before = "ban"
        /\ ev.previous = Null \/ ev.at - ev.previous > BanRetryWindow
        /\ last_used[ev.phone] = ev.at

\* C9, the case: an identity probed before is probed again.
C9_ProbedAgain == ev.kind = "probe" /\ ev.previous # Null

(***************************************************************************)
(* Properties of the handling of failures and of the retry list.           *)
(***************************************************************************)
\* C11: an execution that fails because the credential is rejected quarantines the
\* identity at once, on that first failure, and the task is not put in the retry list.
C11_AuthQuarantinesAtOnce ==
    ev.kind = "exec" /\ ev.outcome = "error" /\ ev.cause = "auth"
        => /\ ev.quarantine
           /\ status[ev.task.phone] = "ban"
           /\ \A i \in DOMAIN retry_tasks : Key(retry_tasks[i]) # Key(ev.task)

\* C12: a task whose execution fails with a timeout or connection error is put in the
\* retry list for a later attempt.
C12_NetworkErrorRetried ==
    ev.kind = "exec" /\ ev.outcome = "error" /\ ev.cause = "network"
        => \E i \in DOMAIN retry_tasks : Key(retry_tasks[i]) = Key(ev.task)

\* C13: every task in the retry list was put there at most max_retries times
\* (1 <= retry_count <= max_retries), and a rate-limited task whose retry_count would
\* exceed max_retries is not put in the list.
C13_RetriesBounded ==
    /\ \A i \in DOMAIN retry_tasks :
        retry_tasks[i].retry_count >= 1 /\ retry_tasks[i].retry_count <= max_retries
    /\ ev.kind = "exec" /\ ev.outcome = "flood" /\ ev.task.retry_count >= max_retries
        => \A i \in DOMAIN retry_tasks : Key(retry_tasks[i]) # Key(ev.task)

\* C13, the case: a task that was re-queued max_retries times is rate-limited again
\* and dropped.
C13_DroppedAfterLast ==
    /\ ev.kind = "exec" /\ ev.outcome = "flood"
    /\ ev.task.retry_count = max_retries
    /\ \A i \in DOMAIN retry_tasks : Key(retry_tasks[i]) # Key(ev.task)

(***************************************************************************)
(* Properties of the scheduler.                                            *)
(***************************************************************************)
\* The registered metadata of the shard an entry is stored in covers its execute_at.
InWindow(e) ==
    \E m \in active_shards :
        /\ m.shard_key = e.key
        /\ m.start_time <= e.task.execute_at
        /\ e.task.execute_at < m.end_time

\* C14: a scheduled task, view or subscription, is stored in the shard whose shard_id
\* is floor((execute_at - window_start) / shard_interval), and its execute_at lies in
\* [start_time, end_time) of that shard's registered metadata.
C14_ShardOfTask ==
    /\ \A e \in shards : InWindow(e)
    /\ ev.kind = "scheduled" =>
        LET e == ev.entry
            interval == ShardInterval(e.task.task_type)
            id == e.key[3]
        IN  /\ e \in shards
            /\ id * interval <= e.task.execute_at - ev.at
            /\ e.task.execute_at - ev.at < (id + 1) * interval

\* C14, the case: with shard_interval 900 and the window starting at 0, the view task
\* due at 1000 is stored in shard 1.
C14_ShardOne ==
    /\ ev.kind = "scheduled"
    /\ ev.at = 0
    /\ ev.entry.task.task_type = "view"
    /\ ev.entry.task.execute_at = 1000
    /\ ev.entry.key[3] = 1
    /\ ev.entry \in shards

(***************************************************************************)
(* Properties of the order of execution.                                   *)
(***************************************************************************)
\* C15: the tasks of one range pull are started in non-decreasing execute_at order:
\* of two tasks of the pull, the one started first is not due later than the other.
C15_PullOrder ==
    \A i, j \in DOMAIN last_pull.started :
        i < j => last_pull.started[i].execute_at <= last_pull.started[j].execute_at

(***************************************************************************)
(* Properties of the buffer.                                               *)
(***************************************************************************)
\* C16: the buffer never holds more than max_buffer_size tasks, whatever the order of
\* fill, reconciliation, processing and cleanup; and a reconciliation that keeps R
\* ready tasks brings in at most max_buffer_size - R further tasks.
C16_BufferBounded ==
    /\ Len(task_buffer) <= max_buffer_size
    /\ ev.kind = "reorder" =>
        Cardinality(Range(task_buffer) \ ev.kept)
            <= max_buffer_size - Cardinality(ev.kept)

\* C16, the case: a reconciliation has kept a ready task and brought in another one,
\* and the buffer is full.
C16_KeptAndAdmitted ==
    /\ ev.kind = "reorder"
    /\ ev.kept # {}
    /\ Range(task_buffer) \ ev.kept # {}
    /\ Len(task_buffer) = max_buffer_size

(***************************************************************************)
(* Properties of the session pool.                                         *)
(***************************************************************************)
\* The connections of identity p that are open.
OpenOf(p) == { c \in pool.open : c[1] = p }

\* C17: in every state of the pool, after any sequence of preload, add, remove, reload
\* and health check, every identity has at most one open connection.
C17_OneConnection ==
    \A p \in Phones : Cardinality(OpenOf(p)) <= 1

(***************************************************************************)
(* Properties of the shutdown.                                             *)
(***************************************************************************)
\* C18: every task that is in the buffer when the shutdown begins is in "task_queue",
\* under its execute_at, when the worker has exited; none is discarded.
C18_ShutdownFlushes ==
    ev.kind = "shutdown" =>
        /\ ~running
        /\ \A t \in ev.buffered :
            \E q \in task_queue : Key(q) = Key(t) /\ q.execute_at = t.execute_at

\* C18, the case: the worker has shut down with a task in its buffer.
C18_ShutdownWithTasks ==
    /\ ev.kind = "shutdown"
    /\ ev.buffered # {}

(***************************************************************************)
(* Properties of a request with a failing backend.                         *)
(***************************************************************************)
\* C19: a persistence error while a batch is written aborts the whole batch: the
\* operation reports an error, and no shard of the request and no index entry of such
\* a shard remains in the backend.
C19_BatchAllOrNothing ==
    ev.kind = "batch" /\ ev.fault # "none" =>
        /\ ev.result = "error"
        /\ \A e \in ev.request :
            /\ e \notin shards
            /\ e.key \notin RegisteredKeys

(***************************************************************************)
(* Properties of the recovery from crashes of the loop.                    *)
(***************************************************************************)
\* C20: the crashes of the loop in a row are counted, and after a bounded number of
\* them, here MaxCrashes, the engine has stopped for good.
C20_CrashesBounded ==
    crashes >= MaxCrashes => ~running

(***************************************************************************)
(* Properties of the quarantine and its probes.                            *)
(***************************************************************************)
\* C21: a quarantined identity stays quarantined until a probe of it succeeds; the
\* end of another task of the identity that was in flight when it was quarantined
\* does not make it active again.
C21_QuarantineTerminal ==
    [][\A p \in Phones :
        status[p] = "ban" /\ status'[p] # "ban"
            => ev'.kind = "success" /\ ev'.path = "probe_exec" /\ ev'.task.phone = p]_vars


\* A quarantined identity has no client in the pool of the worker.
QuarantinedHasNoClient == \A p \in Phones : status[p] = "ban" => ~get_client(p)

\* C22: the probe of a selected quarantined identity attempts one action on the
\* platform (and the identity is active with failure counter 0 if it is accepted): the
\* test task of a probe never ends before a request of it was sent.
C22_ProbeAttempted ==
    ev.kind = "probe_exec" => ev.outcome # "no_client"


\* C23: a failed probe changes only the last-probed timestamp of the identity: its
\* status and its failure counter stay, and no pool eviction and no purge of its tasks
\* is triggered.
C23_FailedProbeFrame ==
    [][pc = "probe_exec" /\ pc' = "probe_sleep"
           => /\ status' = status
              /\ fail' = fail
              /\ live' = live
              /\ bg_purge' = bg_purge]_vars


(***************************************************************************)
(* Properties of the buffer, of its lock and of reconciliation.            *)
(***************************************************************************)
\* The worker alone, every step of it taken when it stays enabled.
AdmitNext ==
    \/ Tick
    \/ WorkerStep

AdmitSpec == Init /\ [][AdmitNext]_vars /\ WF_vars(WorkerStep)

\* The task is due and sits in "task_queue", its identity has a client in the pool.
DueInQueue(t) ==
    /\ running
    /\ t \in task_queue \/ WithScore(t) \in task_queue
    /\ t.execute_at <= clock
    /\ get_client(t.phone)

HasOps(e) == "ops" \in DOMAIN e

\* C25: every change of the task buffer (the append of fill, the clear and re-extend
\* of the processing cycle, the replacement by reconciliation, the cleanup of expired
\* tasks, forced processing, the purge, the cleanup of dead sessions) is made while
\* the buffer lock is held.
C25_MutationsLocked ==
    HasOps(ev) => \A i \in DOMAIN ev.ops : ev.ops[i] \in BufferOps => LockHeld(ev.ops, i)

\* C26: the buffer lock is never held across a network call: no range query, write or
\* remove on redis is issued between acquiring and releasing it.
C26_NoNetworkUnderLock ==
    HasOps(ev) => \A i \in DOMAIN ev.ops : ev.ops[i] \in NetworkOps => ~LockHeld(ev.ops, i)


\* C27: at most one reconciliation pass is active at any time: a pass that finds the
\* guard buffer_updating set leaves the buffer and "task_queue" alone, and a pass that
\* set the guard has cleared it when it ends, whether it ends normally, returns early
\* or fails, so the guard never stays set.
C27_GuardCleared ==
    [][bg_reorder /\ ~bg_reorder' /\ running'
           => /\ ~buffer_updating'
              /\ buffer_updating => UNCHANGED <<task_buffer, task_queue>>]_vars

\* A pass has failed in a redis call and the guard is clear.
C27_FailedPassEnded == ev.kind = "reorder_failed" /\ ~buffer_updating


\* C28: fill and the top-up of reconciliation admit a task to the buffer only if its
\* identity has a live connection at that time; a pulled task whose identity has none
\* is removed from "task_queue" and not buffered.
C28_AdmitsLive ==
    [][ev'.kind \in {"fill", "reorder"}
           => /\ \A t \in Range(task_buffer') \ Range(task_buffer) : get_client(t.phone)
              /\ \A t \in task_queue \ task_queue' :
                    get_client(t.phone) <=> WithScore(t) \in Range(task_buffer')]_vars

\* Fill has pulled a task whose identity has no live connection.
C28_PulledWithoutClient ==
    /\ ev.kind = "fill"
    /\ \E t \in ev.pulled :
        ~get_client(t.phone) /\ t \notin task_queue /\ WithScore(t) \notin Range(task_buffer)


(***************************************************************************)
(* Properties of the re-attempts.                                          *)
(***************************************************************************)
\* C29: a rate-limited task is pushed to "retry_tasks" with retry_after = now + wait
\* hint + jitter, jitter >= 0; retry processing sends no request of it before
\* retry_after, and puts a task it popped too early back without executing it.
C29_RetryNotEarly ==
    [][/\ ev'.kind = "exec" /\ ev'.outcome = "flood" /\ Len(retry_tasks') > Len(retry_tasks)
            => \E delay \in FloodSeconds :
                    retry_tasks'[1].retry_after >= ev'.at + delay
       /\ ev'.kind = "request" /\ ev'.path = "retry_exec"
            => ev'.at >= ev'.task.retry_after
       /\ (/\ pc = "retry_loop" /\ iter < retry_batch /\ retry_tasks # <<>>
           /\ retry_tasks[Len(retry_tasks)].retry_after > clock)
            => /\ retry_tasks[Len(retry_tasks)] \in Range(retry_tasks')
               /\ inflight' = inflight]_vars

\* A task that was rate-limited is attempted again by retry processing.
C29_RetriedWhenDue ==
    /\ ev.kind = "request" /\ ev.path = "retry_exec"
    /\ ev.task.retry_count >= 1
    /\ ev.at >= ev.task.retry_after


\* C30: a view or subscribe task that was rate-limited with retries left is attempted
\* again: when retry processing takes it, due and with a live connection of its
\* identity, the same view or subscribe action is performed for it (a request of it
\* is sent, it is not given up as a task of an unknown type).
C30_RetryPerforms ==
    ev.kind = "exec" /\ ev.path = "retry_exec" => ev.outcome # "unknown_type"


(***************************************************************************)
(* Properties of the execution times the scheduler gives.                  *)
(***************************************************************************)
\* C31: the tasks of a view request with n identities over a window of duration
\* seconds are spaced by duration / n clamped to [30, 120] with a jitter of 10 per
\* cent at most, and the time of every task is clamped into
\* [now + 10, now + duration - 30].
C31_ViewSpreadTo120 ==
    ev.kind = "view_time" =>
        LET i == Min(Max(ev.duration \div ev.n, 30), 120) IN
        \E j \in (0 - i \div 10)..(i \div 10) :
            ev.execute_at
                = Min(Max(ev.now + ev.idx * i + j, ev.now + 10), ev.now + ev.duration - 30)

\* C31 with the interval clamped to [30, 300], a task whose time would pass
\* now + duration - 60 placed 30 seconds times the number of tasks after it before
\* that time, and the times clamped into [now + 30, now + duration - 30].
C31_ViewSpread ==
    ev.kind = "view_time" =>
        LET i == Min(Max(ev.duration \div ev.n, 30), 300)
            base == IF ev.idx * i > ev.duration - 60
                    THEN ev.duration - 60 - (ev.n - ev.idx - 1) * 30
                    ELSE ev.idx * i
        IN  \E j \in (0 - i \div 10)..(i \div 10) :
                ev.execute_at
                    = Min(Max(ev.now + base + j, ev.now + 30), ev.now + ev.duration - 30)

\* A later task of a request whose interval is cut to 300 seconds.
C31_IntervalCut ==
    /\ ev.kind = "view_time"
    /\ ev.idx >= 1
    /\ ev.duration \div ev.n > 300
    /\ ev.execute_at - ev.now >= 300 * ev.idx - 30


\* C32: the delay of the account after account i of a subscription request exceeds
\* the delay of account i by the delay between accounts, up to the variation of
\* each, plus one pause when i + 1 is a multiple of the number of subscriptions
\* before a pause; the two accounts are not scheduled at the same time.
C32_SequentialDelays ==
    ev.kind = "sub_delays" =>
        /\ ev.next_delay - ev.delay
            = 600 + (ev.next_variation - ev.variation)
                + (IF (ev.idx + 1) % 4 = 0 THEN 1200 ELSE 0)
        /\ ev.next_delay # ev.delay


\* C33: submitting a request again leaves the backend with the tasks of one
\* submission: no identity has two tasks of the same type for the same target in
\* the shards.
C33_ResubmitIdempotent ==
    \A e1 \in shards, e2 \in shards :
        /\ e1.task.phone = e2.task.phone
        /\ e1.task.channel = e2.task.channel
        /\ e1.task.task_type = e2.task.task_type
        => e1 = e2


\* C34: after a request of views that reports success, every shard it wrote has
\* exactly one entry of the shard index with its key, scored by its start time, and
\* the shard of every entry of the index exists.
C34_SuccessRegistered ==
    ev.kind = "batch" /\ ev.result = "ok" =>
        /\ \A e \in ev.request :
            /\ e \in shards
            /\ Cardinality({ m \in active_shards : m.shard_key = e.key }) = 1
            /\ \A m \in active_shards : m.shard_key = e.key => m.start_time = e.key[2]
        /\ \A m \in active_shards : \E e \in shards : e.key = m.shard_key


(***************************************************************************)
(* Properties of the session pool.                                         *)
(***************************************************************************)
\* C35: the number of the loaded identities never exceeds max_sessions, also when
\* a batch of the preload loads several identities in parallel.
C35_PoolCapped == Handles(pool) <= pool.max_sessions


\* C36: the preload makes at most 3 connection attempts for an identity, and an
\* attempt that finds the credential invalid for good (invalid auth key, password
\* required, session not authorized) is the last one and leaves the identity
\* quarantined.
C36_PermanentNotRetried ==
    ev.kind = "load" =>
        /\ Len(ev.made) <= 3
        /\ \A i \in 1..Len(ev.made) :
            ev.made[i] \in {"auth_key_invalid", "password_needed", "not_authorized"}
            => i = Len(ev.made) /\ status[ev.phone] = "ban"


\* C37: every task the scheduler stores in a shard, and every record queued for a
\* retry, has a type the switch of _execute_task handles, "view" or "subscribe".
C37_PersistedKnownType ==
    /\ \A e \in shards : KnownType(e.task.task_type)
    /\ \A i \in 1..Len(retry_tasks) : KnownType(retry_tasks[i].task_type)


\* C38: no identity is in the connection map and in the failed set at once, so an
\* identity that failed or was evicted and is then loaded again is served by get.
C38_ServedAfterReload ==
    \A p \in Phones : ~(HasHandle(p) /\ p \in pool.failed_sessions)


\* C39: a reconciliation pass that fails after it wrote the future tasks back to
\* "task_queue" and before it replaced the buffer leaves no task both in the buffer
\* and in "task_queue".
C39_FailedPassNoDuplicate ==
    ev.kind = "reorder_failed" =>
        \A q \in task_queue :
            \A i \in DOMAIN task_buffer : WithoutScore(task_buffer[i]) # WithoutScore(q)


\* C40: the purge of an identity's tasks removes only the tasks of that identity:
\* every task of another identity that was in the buffer, in "task_queue" or in
\* "retry_tasks" before the purge is there after it, "retry_tasks" with the same
\* number of copies of every record of another identity.
C40_PurgeFrame ==
    [][ev'.kind \in {"purge", "purge_scan"} /\ <<bg_purge, bg_scan>> # <<bg_purge', bg_scan'>>
           => LET p == ev'.phone
                  Copies(s, r) == Cardinality({ i \in DOMAIN s : s[i] = r })
              IN  /\ \A t \in Range(task_buffer) :
                        t.phone # p => Copies(task_buffer', t) = Copies(task_buffer, t)
                  /\ \A t \in task_queue : t.phone # p => t \in task_queue'
                  /\ \A r \in Range(retry_tasks) \cup Range(retry_tasks') :
                        r.phone # p => Copies(retry_tasks', r) = Copies(retry_tasks, r)]_vars

\* A purge has ended with a record of another identity in "retry_tasks" that was
\* pushed while the purge slept in its scan.
C40_PushedDuringPurge ==
    /\ ev.kind = "purge"
    /\ \E i \in DOMAIN retry_tasks :
        /\ retry_tasks[i].phone # ev.phone
        /\ retry_tasks[i] \notin Range(ev.seen)

====
